---- MODULE Spec2Model ----
(***************************************************************************)
(* Model of ClaimsCompanion: the Express backend with its chat routes      *)
(* (routes/chat.js), claim routes (routes/claims.js), AI assistant         *)
(* (services/ai.js) and Socket.IO server (index.js), the rows they read    *)
(* and write, and the claim page of the frontend (pages/claims/[id].tsx).  *)
(*                                                                         *)
(* Node runs one handler continuation at a time; every `await` is a point  *)
(* where other handlers may run.  A handler is therefore modelled by one   *)
(* action per continuation: the part up to the statement that changes the  *)
(* store, and the part that runs when the store has answered.              *)
(*                                                                         *)
(* An action constrains the variables of its own component (server, hub,   *)
(* page); the next-state relations add what the step means for the other   *)
(* components: Quiet, Publish, or UNCHANGED.                               *)
(*                                                                         *)
(* Spec and LiveSpec are the backend alone, HubSpec the Socket.IO server   *)
(* with its connections, ClientSpec the claim page with the backend,       *)
(* ClaimsSpec the claim routes with claim creation and progress reads.     *)
(* ValidSpec runs the Validation Engine, which the backend does not hold   *)
(* (routes/ai.js answers with fixed values): it is modelled from the       *)
(* system's specification, over the documents the upload route stores.     *)
(* CrossSpec has the owners of both claims chatting at once; HistorySpec   *)
(* adds history reads, starting after an exchange on the second claim.     *)
(* ChatSpec is the claim page once it is shown, sending several messages   *)
(* at a time to the backend; ReconcileSpec is the same page against the    *)
(* chat submission endpoint it is written for (multipart, no message       *)
(* type), which the backend does not hold either and which is modelled     *)
(* from the system's specification.                                        *)
(***************************************************************************)
EXTENDS Integers, Sequences, FiniteSets, TLC

(***************************************************************************)
(* Bounds of the model.                                                    *)
(***************************************************************************)
\* number of HTTP requests the model lets the clients send
MaxOps == 2

\* number of detached AI tasks the model lets the server start
MaxTurns == 2

\* number of socket events the model lets the Socket.IO server handle
MaxHubOps == 4

(***************************************************************************)
(* Values.                                                                 *)
(***************************************************************************)
Null == "null"

\* a JavaScript variable that holds no object yet
Undefined == [undefined |-> TRUE]

\* users.id of the two seeded users
Users == {1, 2}

\* claim ids the requests name: claim 1 (owned by user 1, foreign to user 2)
\* and 3, which names no row of the claims table
ClaimIds == {1, 3}

\* req.body.message_text: absent ("") or present
Texts == {"", "hi"}

\* req.body.message_type: absent (""), the claimant's type, another type
MsgTypes == {"", "user", "ai"}

\* the canned reply of generateResponse's catch block
Fallback == "Thank you for your message. Our team will review your claim and provide an update soon."

\* the text the escalate route inserts
Handoff == "A human claims handler has been notified and will join this conversation shortly."

\* response.data.choices[0].message.content of a successful completion
Completion == "completion"

\* req.body of PUT /:id: status, incident_description, estimated_completion
UpdateInputs ==
  { [status |-> Null,       incident_description |-> "corrected", estimated_completion |-> Null],
    [status |-> "accepted", incident_description |-> Null,        estimated_completion |-> Null],
    [status |-> "",         incident_description |-> Null,        estimated_completion |-> "2025-04-01"] }

\* req.body of POST /:id/documents: file_name, file_url, document_type
DocInputs ==
  { [file_name |-> "report.pdf", file_url |-> "s3://report", document_type |-> "police_report"],
    [file_name |-> "report.pdf", file_url |-> "s3://report", document_type |-> ""],
    [file_name |-> "",           file_url |-> "s3://report", document_type |-> "police_report"] }

\* req.body of PUT /:id that only sets a status
StatusInputs ==
  { [status |-> "accepted",  incident_description |-> Null, estimated_completion |-> Null],
    [status |-> "rejected",  incident_description |-> Null, estimated_completion |-> Null],
    [status |-> "submitted", incident_description |-> Null, estimated_completion |-> Null] }

\* req.body of POST /: claim_type, incident_description (Null: the field is absent)
CreateInputs ==
  { [claim_type |-> "motor", incident_description |-> "Hail damage"],
    [claim_type |-> Null,    incident_description |-> "Hail damage"] }

\* the values Date.now() returns to the create route
Clock == {1, 2}

\* the claim types and the declared document types
ClaimTypes == {"motor", "health", "property", "travel"}
DocTypes == {"incident_report", "photos", "police_report", "medical_report"}

\* req.body of POST /:id/documents, one well-formed body per document type
TypedDocs ==
  {[file_name |-> "scan.pdf", file_url |-> "s3://scan", document_type |-> t] : t \in DocTypes}

\* the answers of the document quality assessor; failed: it did not answer
Verdicts ==
  { [failed |-> TRUE,  is_valid |-> FALSE, confidence |-> 0],
    [failed |-> FALSE, is_valid |-> TRUE,  confidence |-> 90],
    [failed |-> FALSE, is_valid |-> TRUE,  confidence |-> 50],
    [failed |-> FALSE, is_valid |-> FALSE, confidence |-> 90] }

\* the acceptance threshold of a verdict's confidence, in percent
Threshold == 70

\* the weights of required and of optional checklist items in the progress
RequiredWeight == 2
OptionalWeight == 1

\* the Socket.IO connections (socket.id)
Conns == {1, 2}

\* the connection, the user and the claim of the claim page
PageConn == 1
PageUser == 1
PageClaim == 1

\* the file the user picks on the claim page, or none
NoFile == "no file"
Files == {NoFile, "police_report.pdf"}

\* the input box of the claim page
Inputs == {"", "hi"}

VARIABLES
  claims,           \* table claims: id -> row
  claim_progress,   \* table claim_progress, in creation order
  claim_documents,  \* table claim_documents, in creation order
  chat_messages,    \* table chat_messages, in creation order; id = position
  author,           \* history: for each chat message, the code that inserted it
  pending,          \* handlers whose store statement is done and whose continuation has not run
  turns,            \* the detached AI tasks, in the order they were started
  emitted,          \* every io.to(room).emit(...), in order
  last,             \* the last HTTP response sent
  nOps,             \* number of requests received
  connected,        \* the Socket.IO connections that are open
  rooms,            \* socket.rooms: for each connection, the rooms it is in
  delivered,        \* for each connection, the positions of emitted that were sent to it
  hubLast,          \* history: the last socket event the server handled
  page              \* the claim page of the frontend (pages/claims/[id].tsx)

vars == <<claims, claim_progress, claim_documents, chat_messages, author,
          pending, turns, emitted, last, nOps,
          connected, rooms, delivered, hubLast, page>>

\* the variables of the HTTP handlers and of the AI tasks
server == <<claims, claim_progress, claim_documents, chat_messages, author,
            pending, turns, emitted, last, nOps>>

\* the variables of the Socket.IO server
hub == <<connected, rooms, delivered, hubLast>>

store == <<claims, claim_progress, claim_documents, chat_messages, author>>

(***************************************************************************)
(* Helpers.                                                                *)
(***************************************************************************)
\* `claim_${claimId}`
Room(c) == c

\* JavaScript truthiness of a request field: absent, null and "" are falsy
Truthy(v) == v # "" /\ v # Null

\* COALESCE($1, col) after `value || null`
Coalesce(v, old) == IF Truthy(v) THEN v ELSE old

\* variant: the ownership query without its user_id condition
OwnedByAnyone(c, u) == c \in DOMAIN claims

\* SELECT id FROM claims WHERE id = $1 AND user_id = $2 returns a row
OwnedBy(c, u) == c \in DOMAIN claims /\ claims[c].user_id = u

\* variant: the guard without its message_text operand
ValidSubmitTypeOnly(text, type) == Truthy(type)

\* the guard of line 30 of chat.js, negated
ValidSubmit(text, type) == Truthy(text) /\ Truthy(type)

\* the guard of line 173 of claims.js, negated
ValidDocument(d) == Truthy(d.file_name) /\ Truthy(d.file_url) /\ Truthy(d.document_type)

\* variant: the AI task started for every message type
TriggersAIAlways(type) == TRUE

\* `if (message_type === 'user')`
TriggersAI(type) == type = "user"

\* INSERT INTO chat_messages ... RETURNING id, claim_id, message_type, message_text
NewMessage(c, type, text) ==
  [id |-> Len(chat_messages) + 1, claim_id |-> c, message_type |-> type, message_text |-> text]

\* the rows of chat_messages of one claim, oldest first, as the history route projects them
HistoryRow(m) == [id |-> m.id, message_type |-> m.message_type, message_text |-> m.message_text]
\* variant: the SELECT of the history without its WHERE claim_id = $1
HistoryOfEveryClaim(c, i) ==
  [j \in 1..(Len(chat_messages) + 1 - i) |-> HistoryRow(chat_messages[i + j - 1])]

RECURSIVE HistoryOf(_, _)
HistoryOf(c, i) ==
  IF i > Len(chat_messages) THEN <<>>
  ELSE IF chat_messages[i].claim_id = c
       THEN <<HistoryRow(chat_messages[i])>> \o HistoryOf(c, i + 1)
       ELSE HistoryOf(c, i + 1)

\* the rows of claim_progress of one claim, oldest first
ProgressOf(c) == SelectSeq(claim_progress, LAMBDA s : s.claim_id = c)

Emit(c, event, payload) == [room |-> Room(c), event |-> event, payload |-> payload]

Response(op, u, c, req, code, body) ==
  [op |-> op, user |-> u, claim |-> c, req |-> req, code |-> code, body |-> body]

NotFoundBody == [error |-> "Claim not found"]
ServerErrorBody == [error |-> "Internal server error"]

\* number of responses sent so far
Responded == nOps - Cardinality(pending)

\* the persisted messages that start (or will start) an AI task
Triggering == {i \in DOMAIN chat_messages :
                 author[i].by = "submit" /\ TriggersAI(chat_messages[i].message_type)}

\* a socket event as the server handled it: the rooms of the connection
\* before it, and the number of events published until then
HubEvent(ev, k, c) ==
  [n |-> hubLast.n + 1, ev |-> ev, conn |-> k, claim |-> c,
   before |-> rooms[k], at |-> Len(emitted)]

\* useState(...) and useRef(...) of ClaimDetailPage, before its effects run.
\* outbox holds the calls of sendMessage in order, each with the request it
\* posted, how far its await has come and, as history, the id of the message
\* the server stored for it (0 for none); timers holds the timeouts that are
\* armed, a timeout being named by the call that set it, and timerRef the
\* one kept in timerRef.current (0 for null). lost, lostAt and connectAt are
\* history: whether the connection was ever lost, and how many events had
\* been published when it was last lost and last established
PageInit ==
  [mounted |-> FALSE, messages |-> <<>>, error |-> FALSE,
   fetch |-> "none", response |-> Undefined,
   newMessage |-> "", file |-> NoFile,
   outbox |-> <<>>,
   isAiReplying |-> FALSE, showSlowResponseWarning |-> FALSE,
   timerRef |-> 0, timers |-> {},
   joinSent |-> FALSE, seen |-> 0,
   lost |-> FALSE, lostAt |-> 0, connectAt |-> 0]

(***************************************************************************)
(* The demo seed (scripts/seed-demo-data.js).                              *)
(***************************************************************************)
\* the two claims of the seed, one for each seeded user
SeedClaims ==
  (1 :> [claim_number |-> "CLM2025001", user_id |-> 1, claim_type |-> "motor",
         status |-> "assessment_in_progress",
         incident_description |-> "Rear-end collision at traffic lights",
         estimated_completion |-> "2025-03-15"])
  @@ (2 :> [claim_number |-> "CLM2025002", user_id |-> 2, claim_type |-> "health",
            status |-> "medical_review",
            incident_description |-> "Hospital visit for appendicitis",
            estimated_completion |-> "2025-02-28"])

\* the progress steps of the seed
SeedProgress ==
  << [claim_id |-> 1, step_id |-> "submitted",      step_title |-> "Claim Submitted",        status |-> "completed"],
     [claim_id |-> 1, step_id |-> "initial_review", step_title |-> "Initial Review",         status |-> "completed"],
     [claim_id |-> 1, step_id |-> "assessment",     step_title |-> "Assessment in Progress", status |-> "active"],
     [claim_id |-> 2, step_id |-> "submitted",      step_title |-> "Claim Submitted",        status |-> "completed"],
     [claim_id |-> 2, step_id |-> "initial_review", step_title |-> "Initial Review",         status |-> "completed"],
     [claim_id |-> 2, step_id |-> "medical_review", step_title |-> "Medical Review",         status |-> "active"] >>

(***************************************************************************)
(* Initial state: the database after schema.sql and the demo seed, no      *)
(* socket connected, the claim page not yet opened.                        *)
(***************************************************************************)
Init ==
  /\ claims = SeedClaims
  /\ claim_progress = SeedProgress
  /\ claim_documents = <<>>
  /\ chat_messages = <<>>
  /\ author = <<>>
  /\ pending = {}
  /\ turns = <<>>
  /\ emitted = <<>>
  /\ last = Response("none", 0, 0, Undefined, 0, Undefined)
  /\ nOps = 0
  /\ connected = {}
  /\ rooms = [k \in Conns |-> {}]
  /\ delivered = [k \in Conns |-> <<>>]
  /\ hubLast = [n |-> 0, ev |-> "none", conn |-> 0, claim |-> 0, before |-> {}, at |-> 0]
  /\ page = PageInit

(***************************************************************************)
(* POST /api/chat/:claimId/messages                                        *)
(***************************************************************************)
\* lines 27-44: validation, ownership query, INSERT of the inbound message
SubmitMessage(u, c, text, type) ==
  /\ nOps < MaxOps
  /\ (ValidSubmit(text, type) /\ TriggersAI(type)) => Cardinality(Triggering) < MaxTurns
  /\ nOps' = nOps + 1
  /\ IF ~ValidSubmit(text, type)
     THEN /\ last' = Response("submit", u, c, [message_text |-> text, message_type |-> type], 400,
                              [error |-> "message_text and message_type are required"])
          /\ UNCHANGED <<store, pending, turns, emitted>>
     ELSE \E db \in {"ok", "select_throws", "insert_throws"} :
            IF db = "select_throws"
            THEN /\ last' = Response("submit", u, c, [message_text |-> text, message_type |-> type], 500, ServerErrorBody)
                 /\ UNCHANGED <<store, pending, turns, emitted>>
            ELSE IF ~OwnedBy(c, u)
            THEN /\ last' = Response("submit", u, c, [message_text |-> text, message_type |-> type], 404, NotFoundBody)
                 /\ UNCHANGED <<store, pending, turns, emitted>>
            ELSE IF db = "insert_throws"
            THEN /\ last' = Response("submit", u, c, [message_text |-> text, message_type |-> type], 500, ServerErrorBody)
                 /\ UNCHANGED <<store, pending, turns, emitted>>
            ELSE /\ chat_messages' = Append(chat_messages, NewMessage(c, type, text))
                 /\ author' = Append(author, [by |-> "submit", re |-> 0])
                 /\ pending' = pending \cup
                      {[n |-> nOps + 1, op |-> "submit", user |-> u, claim |-> c,
                        req |-> [message_text |-> text, message_type |-> type],
                        row |-> NewMessage(c, type, text)]}
                 /\ UNCHANGED <<claims, claim_progress, claim_documents, turns, emitted, last>>

\* the detached task of lines 62-83, before its first await
NewTurn(message) ==
  [msg |-> message.id, claim |-> message.claim_id, userMessage |-> message.message_text,
   pc |-> "read_claim", claim_row |-> Undefined, progressSteps |-> <<>>,
   gen |-> "pending", content |-> Null, persist |-> "pending", row |-> Undefined,
   typingAt |-> Len(emitted) + 2]

\* variant: the response is sent only once the AI tasks of the claim have ended
SubmitRespondAfterTurns(p) ==
  /\ p \in pending
  /\ p.op = "submit"
  /\ \A t \in DOMAIN turns : turns[t].claim = p.claim => turns[t].pc = "done"
  /\ pending' = pending \ {p}
  /\ emitted' = emitted \o <<Emit(p.claim, "chat_message", p.row)>>
                        \o (IF TriggersAI(p.row.message_type)
                            THEN <<Emit(p.claim, "typing", [from |-> "ai"])>>
                            ELSE <<>>)
  /\ turns' = IF TriggersAI(p.row.message_type) THEN Append(turns, NewTurn(p.row)) ELSE turns
  /\ last' = Response("submit", p.user, p.claim, p.req, 201, [message |-> p.row])
  /\ UNCHANGED <<store, nOps>>

\* variant: the typing event is emitted before the event of the message
SubmitRespondTypingFirst(p) ==
  /\ p \in pending
  /\ p.op = "submit"
  /\ pending' = pending \ {p}
  /\ emitted' = emitted \o (IF TriggersAI(p.row.message_type)
                            THEN <<Emit(p.claim, "typing", [from |-> "ai"])>>
                            ELSE <<>>)
                        \o <<Emit(p.claim, "chat_message", p.row)>>
  /\ turns' = IF TriggersAI(p.row.message_type) THEN Append(turns, NewTurn(p.row)) ELSE turns
  /\ last' = Response("submit", p.user, p.claim, p.req, 201, [message |-> p.row])
  /\ UNCHANGED <<store, nOps>>

\* lines 46-85: emit the message, emit typing and start the AI task, respond
SubmitRespond(p) ==
  /\ p \in pending
  /\ p.op = "submit"
  /\ pending' = pending \ {p}
  /\ emitted' = emitted \o <<Emit(p.claim, "chat_message", p.row)>>
                        \o (IF TriggersAI(p.row.message_type)
                            THEN <<Emit(p.claim, "typing", [from |-> "ai"])>>
                            ELSE <<>>)
  /\ turns' = IF TriggersAI(p.row.message_type) THEN Append(turns, NewTurn(p.row)) ELSE turns
  /\ last' = Response("submit", p.user, p.claim, p.req, 201, [message |-> p.row])
  /\ UNCHANGED <<store, nOps>>

(***************************************************************************)
(* AIClaimsAssistant.generateResponse and the rest of the detached task    *)
(***************************************************************************)
\* variant: generateResponse without its catch, the error ending the task
OnGenerateErrorRethrow(turn, kind) ==
  [turn EXCEPT !.gen = kind, !.pc = "done"]

\* ai.js lines 53-57: any error inside generateResponse yields the canned reply
OnGenerateError(turn, kind) ==
  [turn EXCEPT !.gen = kind, !.content = Fallback, !.pc = "insert"]

\* variant: the task waits while a failed task of its claim holds the claim
AiReadClaimWedged(t) ==
  /\ t \in DOMAIN turns
  /\ turns[t].pc = "read_claim"
  /\ \A t1 \in DOMAIN turns :
       (turns[t1].claim = turns[t].claim /\ turns[t1].pc = "done")
         => (turns[t1].gen = "ok" /\ turns[t1].persist = "ok")
  /\ \E ok \in BOOLEAN :
       turns' = [turns EXCEPT ![t] =
                   IF ok
                   THEN [@ EXCEPT !.pc = "read_progress",
                                  !.claim_row = [claim_number |-> claims[turns[t].claim].claim_number,
                                                 claim_type   |-> claims[turns[t].claim].claim_type,
                                                 status       |-> claims[turns[t].claim].status]]
                   ELSE OnGenerateError(@, "context_error")]
  /\ UNCHANGED <<store, pending, emitted, last, nOps>>

\* variant: the tasks share one lock, a task starting only when no task of
\* any claim is under way
AiReadClaimOneAtATime(t) ==
  /\ t \in DOMAIN turns
  /\ turns[t].pc = "read_claim"
  /\ \A t1 \in DOMAIN turns : t1 # t => turns[t1].pc \in {"read_claim", "done"}
  /\ \E ok \in BOOLEAN :
       turns' = [turns EXCEPT ![t] =
                   IF ok
                   THEN [@ EXCEPT !.pc = "read_progress",
                                  !.claim_row = [claim_number |-> claims[turns[t].claim].claim_number,
                                                 claim_type   |-> claims[turns[t].claim].claim_type,
                                                 status       |-> claims[turns[t].claim].status]]
                   ELSE OnGenerateError(@, "context_error")]
  /\ UNCHANGED <<store, pending, emitted, last, nOps>>

\* ai.js lines 22-27: SELECT claim_number, claim_type, status FROM claims WHERE id = $1
AiReadClaim(t) ==
  /\ t \in DOMAIN turns
  /\ turns[t].pc = "read_claim"
  /\ \E ok \in BOOLEAN :
       turns' = [turns EXCEPT ![t] =
                   IF ok
                   THEN [@ EXCEPT !.pc = "read_progress",
                                  !.claim_row = [claim_number |-> claims[turns[t].claim].claim_number,
                                                 claim_type   |-> claims[turns[t].claim].claim_type,
                                                 status       |-> claims[turns[t].claim].status]]
                   ELSE OnGenerateError(@, "context_error")]
  /\ UNCHANGED <<store, pending, emitted, last, nOps>>

\* ai.js lines 29-34: SELECT ... FROM claim_progress WHERE claim_id = $1 ORDER BY created_at
AiReadProgress(t) ==
  /\ t \in DOMAIN turns
  /\ turns[t].pc = "read_progress"
  /\ \E ok \in BOOLEAN :
       turns' = [turns EXCEPT ![t] =
                   IF ok
                   THEN [@ EXCEPT !.pc = "provider", !.progressSteps = ProgressOf(turns[t].claim)]
                   ELSE OnGenerateError(@, "context_error")]
  /\ UNCHANGED <<store, pending, emitted, last, nOps>>

\* ai.js lines 43-52: the completion arrives
ProviderResponds(t) ==
  /\ t \in DOMAIN turns
  /\ turns[t].pc = "provider"
  /\ turns' = [turns EXCEPT ![t] = [@ EXCEPT !.gen = "ok", !.content = Completion, !.pc = "insert"]]
  /\ UNCHANGED <<store, pending, emitted, last, nOps>>

\* ai.js lines 43-57: the call rejects (provider error, or a response without choices)
ProviderFails(t) ==
  /\ t \in DOMAIN turns
  /\ turns[t].pc = "provider"
  /\ turns' = [turns EXCEPT ![t] = OnGenerateError(@, "provider_error")]
  /\ UNCHANGED <<store, pending, emitted, last, nOps>>

\* variant: the emit placed in a finally, so that it also runs when the INSERT threw
AiInsertPublishAnyway(t) ==
  /\ t \in DOMAIN turns
  /\ turns[t].pc = "insert"
  /\ \E ok \in BOOLEAN :
       IF ok
       THEN /\ chat_messages' = Append(chat_messages, NewMessage(turns[t].claim, "ai", turns[t].content))
            /\ author' = Append(author, [by |-> "turn", re |-> turns[t].msg])
            /\ turns' = [turns EXCEPT ![t] =
                           [@ EXCEPT !.pc = "emit", !.persist = "ok",
                                     !.row = NewMessage(turns[t].claim, "ai", turns[t].content)]]
       ELSE /\ turns' = [turns EXCEPT ![t] =
                           [@ EXCEPT !.pc = "emit", !.persist = "error",
                                     !.row = NewMessage(turns[t].claim, "ai", turns[t].content)]]
            /\ UNCHANGED <<chat_messages, author>>
  /\ UNCHANGED <<claims, claim_progress, claim_documents, pending, emitted, last, nOps>>

\* variant: the task keeps one assistant reply per claim, storing a later
\* reply over the earlier one
AiInsertOverPreviousReply(t) ==
  /\ t \in DOMAIN turns
  /\ turns[t].pc = "insert"
  /\ LET earlier == {i \in DOMAIN chat_messages :
                       chat_messages[i].claim_id = turns[t].claim /\ author[i].by = "turn"}
     IN IF earlier = {}
        THEN /\ chat_messages' = Append(chat_messages, NewMessage(turns[t].claim, "ai", turns[t].content))
             /\ author' = Append(author, [by |-> "turn", re |-> turns[t].msg])
             /\ turns' = [turns EXCEPT ![t] =
                            [@ EXCEPT !.pc = "emit", !.persist = "ok",
                                      !.row = NewMessage(turns[t].claim, "ai", turns[t].content)]]
        ELSE LET i == CHOOSE j \in earlier : TRUE
                 row == [chat_messages[i] EXCEPT !.message_text = Completion]
             IN /\ chat_messages' = [chat_messages EXCEPT ![i] = row]
                /\ author' = [author EXCEPT ![i] = [by |-> "turn", re |-> turns[t].msg]]
                /\ turns' = [turns EXCEPT ![t] =
                               [@ EXCEPT !.pc = "emit", !.persist = "ok", !.row = row]]
  /\ UNCHANGED <<claims, claim_progress, claim_documents, pending, emitted, last, nOps>>

\* chat.js lines 66-71 (and 80-82 when the INSERT throws)
AiInsert(t) ==
  /\ t \in DOMAIN turns
  /\ turns[t].pc = "insert"
  /\ \E ok \in BOOLEAN :
       IF ok
       THEN /\ chat_messages' = Append(chat_messages, NewMessage(turns[t].claim, "ai", turns[t].content))
            /\ author' = Append(author, [by |-> "turn", re |-> turns[t].msg])
            /\ turns' = [turns EXCEPT ![t] =
                           [@ EXCEPT !.pc = "emit", !.persist = "ok",
                                     !.row = NewMessage(turns[t].claim, "ai", turns[t].content)]]
       ELSE /\ turns' = [turns EXCEPT ![t] = [@ EXCEPT !.pc = "done", !.persist = "error"]]
            /\ UNCHANGED <<chat_messages, author>>
  /\ UNCHANGED <<claims, claim_progress, claim_documents, pending, emitted, last, nOps>>

\* chat.js lines 72-79
AiEmit(t) ==
  /\ t \in DOMAIN turns
  /\ turns[t].pc = "emit"
  /\ emitted' = Append(emitted, Emit(turns[t].claim, "chat_message", turns[t].row))
  /\ turns' = [turns EXCEPT ![t] = [@ EXCEPT !.pc = "done"]]
  /\ UNCHANGED <<store, pending, last, nOps>>

(***************************************************************************)
(* GET /api/chat/:claimId/history                                          *)
(***************************************************************************)
\* variant: a claim of another user answered 403 instead of 404
HistoryResponseForbidden(u, c, storeAnswers) ==
  IF ~storeAnswers THEN Response("history", u, c, Undefined, 500, ServerErrorBody)
  ELSE IF c \notin DOMAIN claims THEN Response("history", u, c, Undefined, 404 , NotFoundBody)
  ELSE IF claims[c].user_id # u THEN Response("history", u, c, Undefined, 403 , [error |-> "Forbidden"])
  ELSE Response("history", u, c, Undefined, 200, [history |-> HistoryOf(c, 1)])

\* chat.js lines 93-113; storeAnswers is FALSE when one of the two queries throws
HistoryResponse(u, c, storeAnswers) ==
  IF ~storeAnswers THEN Response("history", u, c, Undefined, 500, ServerErrorBody)
  ELSE IF ~OwnedBy(c, u) THEN Response("history", u, c, Undefined, 404 , NotFoundBody)
  ELSE Response("history", u, c, Undefined, 200, [history |-> HistoryOf(c, 1)])

GetHistory(u, c) ==
  /\ nOps < MaxOps
  /\ nOps' = nOps + 1
  /\ \E storeAnswers \in BOOLEAN : last' = HistoryResponse(u, c, storeAnswers)
  /\ UNCHANGED <<store, pending, turns, emitted>>

(***************************************************************************)
(* POST /api/chat/:claimId/escalate                                        *)
(***************************************************************************)
\* variant: a claim that already has a hand-off message gets no second one
EscalateOnce(u, c) ==
  /\ nOps < MaxOps
  /\ nOps' = nOps + 1
  /\ \E db \in {"ok", "select_throws", "insert_throws"} :
       IF db = "select_throws"
       THEN /\ last' = Response("escalate", u, c, Undefined, 500, ServerErrorBody)
            /\ UNCHANGED <<store, pending, turns, emitted>>
       ELSE IF ~OwnedBy(c, u)
       THEN /\ last' = Response("escalate", u, c, Undefined, 404, NotFoundBody)
            /\ UNCHANGED <<store, pending, turns, emitted>>
       ELSE IF \E i \in DOMAIN chat_messages :
                 chat_messages[i].claim_id = c /\ author[i].by = "escalate"
       THEN /\ last' = Response("escalate", u, c, Undefined, 200,
                                [message |-> chat_messages[CHOOSE i \in DOMAIN chat_messages :
                                   chat_messages[i].claim_id = c /\ author[i].by = "escalate"]])
            /\ UNCHANGED <<store, pending, turns, emitted>>
       ELSE IF db = "insert_throws"
       THEN /\ last' = Response("escalate", u, c, Undefined, 500, ServerErrorBody)
            /\ UNCHANGED <<store, pending, turns, emitted>>
       ELSE /\ chat_messages' = Append(chat_messages, NewMessage(c, "ai", Handoff))
            /\ author' = Append(author, [by |-> "escalate", re |-> 0])
            /\ pending' = pending \cup
                 {[n |-> nOps + 1, op |-> "escalate", user |-> u, claim |-> c,
                   req |-> Undefined,
                   row |-> NewMessage(c, "ai", Handoff)]}
            /\ UNCHANGED <<claims, claim_progress, claim_documents, turns, emitted, last>>

\* chat.js lines 116-131: ownership query, INSERT of the hand-off message
Escalate(u, c) ==
  /\ nOps < MaxOps
  /\ nOps' = nOps + 1
  /\ \E db \in {"ok", "select_throws", "insert_throws"} :
       IF db = "select_throws"
       THEN /\ last' = Response("escalate", u, c, Undefined, 500, ServerErrorBody)
            /\ UNCHANGED <<store, pending, turns, emitted>>
       ELSE IF ~OwnedBy(c, u)
       THEN /\ last' = Response("escalate", u, c, Undefined, 404, NotFoundBody)
            /\ UNCHANGED <<store, pending, turns, emitted>>
       ELSE IF db = "insert_throws"
       THEN /\ last' = Response("escalate", u, c, Undefined, 500, ServerErrorBody)
            /\ UNCHANGED <<store, pending, turns, emitted>>
       ELSE /\ chat_messages' = Append(chat_messages, NewMessage(c, "ai", Handoff))
            /\ author' = Append(author, [by |-> "escalate", re |-> 0])
            /\ pending' = pending \cup
                 {[n |-> nOps + 1, op |-> "escalate", user |-> u, claim |-> c,
                   req |-> Undefined,
                   row |-> NewMessage(c, "ai", Handoff)]}
            /\ UNCHANGED <<claims, claim_progress, claim_documents, turns, emitted, last>>

\* chat.js lines 132-140: emit the hand-off message, respond
EscalateRespond(p) ==
  /\ p \in pending
  /\ p.op = "escalate"
  /\ pending' = pending \ {p}
  /\ emitted' = Append(emitted, Emit(p.claim, "chat_message", p.row))
  /\ last' = Response("escalate", p.user, p.claim, p.req, 200, [message |-> p.row])
  /\ UNCHANGED <<store, turns, nOps>>

(***************************************************************************)
(* PUT /api/claims/:id                                                     *)
(***************************************************************************)
\* variant: UPDATE claims SET col = $n ..., without COALESCE
UpdatedClaimOverwriting(row, in) ==
  [row EXCEPT !.status = IF Truthy(in.status) THEN in.status ELSE Null,
              !.incident_description =
                 IF Truthy(in.incident_description) THEN in.incident_description ELSE Null,
              !.estimated_completion =
                 IF Truthy(in.estimated_completion) THEN in.estimated_completion ELSE Null]

\* the row after UPDATE claims SET col = COALESCE($n, col) ...
UpdatedClaim(row, in) ==
  [row EXCEPT !.status = Coalesce(in.status, @),
              !.incident_description = Coalesce(in.incident_description, @),
              !.estimated_completion = Coalesce(in.estimated_completion, @)]

\* RETURNING id, claim_number, status, incident_description, estimated_completion
ReturnedClaim(c, row) ==
  [id |-> c, claim_number |-> row.claim_number, status |-> row.status,
   incident_description |-> row.incident_description,
   estimated_completion |-> row.estimated_completion]

\* claims.js lines 109-126: the UPDATE ... WHERE id = $4 AND user_id = $5
UpdateClaim(u, c, in) ==
  /\ nOps < MaxOps
  /\ nOps' = nOps + 1
  /\ \E storeAnswers \in BOOLEAN :
       IF ~storeAnswers
       THEN /\ last' = Response("update", u, c, in, 500, ServerErrorBody)
            /\ UNCHANGED <<store, pending, turns, emitted>>
       ELSE IF ~OwnedBy(c, u)
       THEN /\ last' = Response("update", u, c, in, 404, [error |-> "Claim not found or unauthorized"])
            /\ UNCHANGED <<store, pending, turns, emitted>>
       ELSE /\ claims' = [claims EXCEPT ![c] = UpdatedClaim(@, in)]
            /\ pending' = pending \cup
                 {[n |-> nOps + 1, op |-> "update", user |-> u, claim |-> c,
                   req |-> in,
                   row |-> ReturnedClaim(c, UpdatedClaim(claims[c], in))]}
            /\ UNCHANGED <<claim_progress, claim_documents, chat_messages, author,
                           turns, emitted, last>>

\* variant: the update is answered without an event
UpdateRespondSilently(p) ==
  /\ p \in pending
  /\ p.op = "update"
  /\ pending' = pending \ {p}
  /\ emitted' = emitted
  /\ last' = Response("update", p.user, p.claim, p.req, 200, [claim |-> p.row])
  /\ UNCHANGED <<store, turns, nOps>>

\* claims.js lines 127-139: emit claim_updated, respond
UpdateRespond(p) ==
  /\ p \in pending
  /\ p.op = "update"
  /\ pending' = pending \ {p}
  /\ emitted' = Append(emitted, Emit(p.claim, "claim_updated",
                         [id |-> p.row.id, status |-> p.row.status,
                          incident_description |-> p.row.incident_description,
                          estimated_completion |-> p.row.estimated_completion]))
  /\ last' = Response("update", p.user, p.claim, p.req, 200, [claim |-> p.row])
  /\ UNCHANGED <<store, turns, nOps>>

(***************************************************************************)
(* POST /api/claims/:id/documents                                          *)
(***************************************************************************)
\* INSERT INTO claim_documents ... RETURNING id, file_name, file_url, document_type, status
NewDocument(c, d) ==
  [id |-> Len(claim_documents) + 1, claim_id |-> c, file_name |-> d.file_name,
   file_url |-> d.file_url, document_type |-> d.document_type, status |-> "pending_review"]

\* claims.js lines 168-193
UploadDocument(u, c, d) ==
  /\ nOps < MaxOps
  /\ nOps' = nOps + 1
  /\ IF ~ValidDocument(d)
     THEN /\ last' = Response("upload", u, c, d, 400,
                              [error |-> "file_name, file_url, and document_type are required"])
          /\ UNCHANGED <<store, pending, turns, emitted>>
     ELSE \E db \in {"ok", "select_throws", "insert_throws"} :
            IF db = "select_throws"
            THEN /\ last' = Response("upload", u, c, d, 500, ServerErrorBody)
                 /\ UNCHANGED <<store, pending, turns, emitted>>
            ELSE IF ~OwnedBy(c, u)
            THEN /\ last' = Response("upload", u, c, d, 404, NotFoundBody)
                 /\ UNCHANGED <<store, pending, turns, emitted>>
            ELSE IF db = "insert_throws"
            THEN /\ last' = Response("upload", u, c, d, 500, ServerErrorBody)
                 /\ UNCHANGED <<store, pending, turns, emitted>>
            ELSE /\ claim_documents' = Append(claim_documents, NewDocument(c, d))
                 /\ last' = Response("upload", u, c, d, 201, [document |-> NewDocument(c, d)])
                 /\ UNCHANGED <<claims, claim_progress, chat_messages, author,
                                pending, turns, emitted>>

(***************************************************************************)
(* POST /api/claims                                                        *)
(***************************************************************************)
\* claims.js line 37: 'CLM' + Date.now().toString()
ClaimNumber(now) == "CLM" \o ToString(now)

\* variant: the claim_number column without its UNIQUE constraint
NumberTakenIgnored(number) == FALSE

\* schema.sql line 15: claim_number VARCHAR(20) UNIQUE NOT NULL
NumberTaken(number) == \E c \in DOMAIN claims : claims[c].claim_number = number

\* schema.sql line 13: id SERIAL PRIMARY KEY (an id above every id in use)
NextClaimId == (CHOOSE c \in DOMAIN claims : \A d \in DOMAIN claims : d <= c) + 1

\* the row the INSERT of lines 38-51 stores
NewClaim(u, in, now) ==
  [claim_number |-> ClaimNumber(now), user_id |-> u, claim_type |-> in.claim_type,
   status |-> "submitted", incident_description |-> in.incident_description,
   estimated_completion |-> Null]

\* claims.js lines 28-52: the INSERT of the claim; it throws when the store
\* fails, when claim_type is missing (NOT NULL) or when the number is taken
CreateClaim(u, in, now) ==
  /\ nOps < MaxOps
  /\ nOps' = nOps + 1
  /\ \E storeAnswers \in BOOLEAN :
       IF ~storeAnswers \/ ~Truthy(in.claim_type) \/ NumberTaken(ClaimNumber(now))
       THEN /\ last' = Response("create", u, 0, in, 500, ServerErrorBody)
            /\ UNCHANGED <<store, pending, turns, emitted>>
       ELSE /\ claims' = claims @@ (NextClaimId :> NewClaim(u, in, now))
            /\ pending' = pending \cup
                 {[n |-> nOps + 1, op |-> "create", user |-> u, claim |-> NextClaimId,
                   req |-> in,
                   row |-> [id |-> NextClaimId, claim_number |-> ClaimNumber(now),
                            claim_type |-> in.claim_type, status |-> "submitted"]]}
            /\ UNCHANGED <<claim_progress, claim_documents, chat_messages, author,
                           turns, emitted, last>>

\* claims.js lines 53-70: the INSERT of the first progress step, respond
CreateRespond(p) ==
  /\ p \in pending
  /\ p.op = "create"
  /\ pending' = pending \ {p}
  /\ \E storeAnswers \in BOOLEAN :
       IF storeAnswers
       THEN /\ claim_progress' = Append(claim_progress,
                                    [claim_id |-> p.claim, step_id |-> "submitted",
                                     step_title |-> "Claim Submitted", status |-> "completed"])
            /\ last' = Response("create", p.user, p.claim, p.req, 201, [claim |-> p.row])
       ELSE /\ last' = Response("create", p.user, p.claim, p.req, 500, ServerErrorBody)
            /\ UNCHANGED claim_progress
  /\ UNCHANGED <<claims, claim_documents, chat_messages, author, turns, emitted, nOps>>

(***************************************************************************)
(* GET /api/claims/:id/progress                                            *)
(***************************************************************************)
\* SELECT id, step_id, step_title, status ... of the row at position i
ProgressRow(i) ==
  [id |-> i, step_id |-> claim_progress[i].step_id,
   step_title |-> claim_progress[i].step_title, status |-> claim_progress[i].status]

\* the positions of the steps of claim c in claim_progress, oldest first
StepsOf(c) ==
  SelectSeq([i \in 1..Len(claim_progress) |-> i], LAMBDA i : claim_progress[i].claim_id = c)

\* variant: ... ORDER BY created_at DESC
ProgressRowsNewestFirst(c) ==
  [j \in 1..Len(StepsOf(c)) |-> ProgressRow(StepsOf(c)[Len(StepsOf(c)) + 1 - j])]

\* claims.js lines 155-159: ... WHERE claim_id = $1 ORDER BY created_at ASC;
\* created_at never decreases along the rows of a claim, and rows with the
\* same created_at (the seed inserts its steps in one statement) come back
\* in the order they were stored
ProgressRows(c) == [j \in 1..Len(StepsOf(c)) |-> ProgressRow(StepsOf(c)[j])]

\* claims.js lines 148-164; storeAnswers is FALSE when one of the two queries throws
ProgressResponse(u, c, storeAnswers) ==
  IF ~storeAnswers THEN Response("progress", u, c, Undefined, 500, ServerErrorBody)
  ELSE IF ~OwnedBy(c, u) THEN Response("progress", u, c, Undefined, 404, NotFoundBody)
  ELSE Response("progress", u, c, Undefined, 200, [progress |-> ProgressRows(c)])

GetProgress(u, c) ==
  /\ nOps < MaxOps
  /\ nOps' = nOps + 1
  /\ \E storeAnswers \in BOOLEAN : last' = ProgressResponse(u, c, storeAnswers)
  /\ UNCHANGED <<store, pending, turns, emitted>>

(***************************************************************************)
(* The Validation Engine.  The value it computes is the one the claim page *)
(* declares (ValidationStatusPayload, ValidationItem, ValidationSummary).  *)
(***************************************************************************)
\* the checklist of a claim type
Checklist(T) ==
  IF T = "motor"
  THEN << [key |-> "incident_report", required |-> TRUE,  doc_type |-> "incident_report"],
          [key |-> "photos",          required |-> TRUE,  doc_type |-> "photos"],
          [key |-> "police_report",   required |-> FALSE, doc_type |-> "police_report"] >>
  ELSE IF T = "health"
  THEN << [key |-> "medical_report",  required |-> TRUE,  doc_type |-> "medical_report"],
          [key |-> "incident_report", required |-> FALSE, doc_type |-> "incident_report"] >>
  ELSE IF T = "property"
  THEN << [key |-> "incident_report", required |-> TRUE,  doc_type |-> "incident_report"],
          [key |-> "photos",          required |-> TRUE,  doc_type |-> "photos"] >>
  ELSE << [key |-> "police_report",   required |-> TRUE,  doc_type |-> "police_report"],
          [key |-> "photos",          required |-> FALSE, doc_type |-> "photos"] >>

\* the validation record status a verdict of the assessor gives a document
VerdictStatus(v) ==
  IF v.failed THEN "needs_review"
  ELSE IF ~v.is_valid THEN "invalid"
  ELSE IF v.confidence < Threshold THEN "needs_review"
  ELSE "valid"

\* the validation record statuses of the documents of type t in D
StatusesOf(D, t) == {D[i].status : i \in {j \in DOMAIN D : D[j].document_type = t}}

\* variant: a document not yet assessed puts its item in the state
\* needs_verification
ItemStateVerifying(D, t) ==
  IF StatusesOf(D, t) = {} THEN "missing"
  ELSE IF "valid" \in StatusesOf(D, t) THEN "ok"
  ELSE IF "pending_review" \in StatusesOf(D, t) THEN "needs_verification"
  ELSE IF StatusesOf(D, t) = {"invalid"} THEN "invalid"
  ELSE "needs_review"

\* variant: several documents that passed for one item are an ambiguous
\* signal, and the item needs review
ItemStateAmbiguous(D, t) ==
  IF StatusesOf(D, t) = {} THEN "missing"
  ELSE IF Cardinality({i \in DOMAIN D : D[i].document_type = t /\ D[i].status = "valid"}) = 1
  THEN "ok"
  ELSE IF StatusesOf(D, t) = {"invalid"} THEN "invalid"
  ELSE "needs_review"

\* the state of the checklist item fed by documents of type t
ItemState(D, t) ==
  IF StatusesOf(D, t) = {} THEN "missing"
  ELSE IF "valid" \in StatusesOf(D, t) THEN "ok"
  ELSE IF StatusesOf(D, t) = {"invalid"} THEN "invalid"
  ELSE "needs_review"

\* the items of the ValidationStatus of a claim of type T with documents D
Items(T, D) ==
  [k \in DOMAIN Checklist(T) |->
     [key |-> Checklist(T)[k].key, required |-> Checklist(T)[k].required,
      doc_type |-> Checklist(T)[k].doc_type,
      state |-> ItemState(D, Checklist(T)[k].doc_type)]]

\* the number of items in state st
CountOf(items, st) == Cardinality({k \in DOMAIN items : items[k].state = st})

\* the states of a checklist item (ValidationItem.state)
ItemStates == {"ok", "missing", "invalid", "needs_review", "needs_verification"}

RECURSIVE WeightOf(_, _, _)
\* the weight of the items from position k on whose state is in states
WeightOf(items, k, states) ==
  IF k > Len(items) THEN 0
  ELSE (IF items[k].state \in states
        THEN (IF items[k].required THEN RequiredWeight ELSE OptionalWeight)
        ELSE 0) + WeightOf(items, k + 1, states)

\* the progress: the weight of the items that are ok, in percent of all weight
ProgressOfItems(items) ==
  (100 * WeightOf(items, 1, {"ok"})) \div WeightOf(items, 1, ItemStates)

\* variant: an item to review decides the hint before a missing one does
DecisionHintReviewFirst(items) ==
  IF \E k \in DOMAIN items : items[k].state \in {"needs_review", "invalid"}
  THEN "needs_review"
  ELSE IF \E k \in DOMAIN items : items[k].required /\ items[k].state = "missing"
  THEN "awaiting_documents"
  ELSE "ready_for_review"

\* the decision hint
DecisionHint(items) ==
  IF \E k \in DOMAIN items : items[k].required /\ items[k].state = "missing"
  THEN "awaiting_documents"
  ELSE IF \E k \in DOMAIN items : items[k].state \in {"needs_review", "invalid"}
  THEN "needs_review"
  ELSE "ready_for_review"

\* the ValidationStatus of a claim of type T with the documents D
ValidationStatus(T, D) ==
  [items |-> Items(T, D),
   progress |-> ProgressOfItems(Items(T, D)),
   decision_hint |-> DecisionHint(Items(T, D)),
   validation_summary |->
     [total_items |-> Len(Items(T, D)),
      completed_items |-> CountOf(Items(T, D), "ok"),
      missing_items |-> CountOf(Items(T, D), "missing"),
      invalid_items |-> CountOf(Items(T, D), "invalid"),
      review_items |-> CountOf(Items(T, D), "needs_review"),
      completion_rate |-> (100 * CountOf(Items(T, D), "ok")) \div Len(Items(T, D))]]

\* the documents of claim c, oldest first
DocsOf(c) == SelectSeq(claim_documents, LAMBDA d : d.claim_id = c)

\* the assessor's verdict on a stored document becomes its validation record
ValidateDocument(i, v) ==
  /\ i \in DOMAIN claim_documents
  /\ claim_documents[i].status = "pending_review"
  /\ claim_documents' = [claim_documents EXCEPT ![i].status = VerdictStatus(v)]
  /\ UNCHANGED <<claims, claim_progress, chat_messages, author, pending, turns,
                 emitted, last, nOps>>

\* the engine is run on a claim and its documents and answers with the status
ComputeValidation(c) ==
  /\ c \in DOMAIN claims
  /\ last' = Response("validate", claims[c].user_id, c, Undefined, 200,
                      [validation_status |->
                         ValidationStatus(claims[c].claim_type, DocsOf(c))])
  /\ UNCHANGED <<store, pending, turns, emitted, nOps>>

(***************************************************************************)
(* The Socket.IO server (index.js) and io.to(room).emit                    *)
(***************************************************************************)
\* variant: leave_claim empties the rooms of the socket, as a disconnect does
LeftEverything(r, room) == {}

\* socket.leave(room): the room is deleted from the set socket.rooms
Left(r, room) == r \ {room}

\* socket.join(room): the room is added to the set socket.rooms
Joined(r, room) == r \cup {room}

\* variant: io.emit(...), the packet sent to every open connection
InRoomOrNot(k, room) == k \in connected

\* io.to(room): the sockets that are in the room when emit is called
InRoom(k, room) == k \in connected /\ room \in rooms[k]

\* the positions a step adds to emitted, in order
Published == [i \in 1..(Len(emitted') - Len(emitted)) |-> Len(emitted) + i]

\* io.to(room).emit(event, payload): each packet goes once to each socket
\* that is in the room at that moment; nothing is kept for the others
Deliver ==
  delivered' = [k \in Conns |->
                  delivered[k] \o SelectSeq(Published, LAMBDA i : InRoom(k, emitted'[i].room))]

\* the user whose browser holds connection k: the claim page opens its
\* socket with io(url), sending no credentials, and the server keeps no user
\* for a socket; the page of user k is taken to hold connection k
ConnUser(k) == k

\* index.js line 43: io.on('connection')
Connect(k) ==
  /\ k \notin connected
  /\ hubLast.n < MaxHubOps
  /\ connected' = connected \cup {k}
  /\ hubLast' = HubEvent("connection", k, 0)
  /\ UNCHANGED <<rooms, delivered>>

\* index.js lines 46-50: socket.on('join_claim')
JoinClaim(k, c) ==
  /\ k \in connected
  /\ hubLast.n < MaxHubOps
  /\ rooms' = [rooms EXCEPT ![k] = Joined(@, Room(c))]
  /\ hubLast' = HubEvent("join_claim", k, c)
  /\ UNCHANGED <<connected, delivered>>

\* index.js lines 52-56: socket.on('leave_claim')
LeaveClaim(k, c) ==
  /\ k \in connected
  /\ hubLast.n < MaxHubOps
  /\ rooms' = [rooms EXCEPT ![k] = Left(@, Room(c))]
  /\ hubLast' = HubEvent("leave_claim", k, c)
  /\ UNCHANGED <<connected, delivered>>

\* index.js lines 57-59: the connection closes; Socket.IO has taken the
\* socket out of its rooms when the 'disconnect' listener runs
Disconnect(k) ==
  /\ k \in connected
  /\ hubLast.n < MaxHubOps
  /\ connected' = connected \ {k}
  /\ rooms' = [rooms EXCEPT ![k] = {}]
  /\ hubLast' = HubEvent("disconnect", k, 0)
  /\ UNCHANGED delivered

(***************************************************************************)
(* The claim page of the frontend: pages/claims/[id].tsx                   *)
(***************************************************************************)
\* a field of req.body that the request does not carry: bodyParser.json and
\* bodyParser.urlencoded (index.js 31-32) leave req.body empty for the
\* multipart/form-data requests the page sends
Absent == ""

\* 'temp-' + Date.now(): the id of the optimistic message of the n-th call of
\* sendMessage; server ids are positive
TempId(n) == 0 - n
IsTemp(m) == m.id < 0

\* [id].tsx lines 158-174: the list after a chat_message event
OnChatMessage(prev, msg) ==
  LET optimistic == {i \in DOMAIN prev : IsTemp(prev[i]) /\ prev[i].message_text = msg.message_text}
  IN  IF msg.message_type = "user" /\ optimistic # {}
      THEN [prev EXCEPT ![CHOOSE i \in optimistic : \A j \in optimistic : i <= j] = msg]
      ELSE Append(prev, msg)

\* [id].tsx lines 126-151: the page opens; fetchData sends its GETs and io()
\* starts to connect
PageMount ==
  /\ ~page.mounted
  /\ page' = [page EXCEPT !.mounted = TRUE, !.fetch = "sent"]

\* the server answers GET /chat/:id/history of fetchData
PageFetchServed ==
  /\ page.fetch = "sent"
  /\ GetHistory(PageUser, PageClaim)
  /\ page' = [page EXCEPT !.fetch = "answered", !.response = last']

\* [id].tsx lines 135-141: setMessages(historyRes.data.history), or setError
PageFetchApply ==
  /\ page.fetch = "answered"
  /\ page' = IF page.response.code = 200
             THEN [page EXCEPT !.fetch = "done", !.messages = page.response.body.history]
             ELSE [page EXCEPT !.fetch = "done", !.error = TRUE]

\* the socket of the page connects, the first time or again after a loss;
\* [id].tsx lines 153-155: the 'connect' handler emits join_claim
PageSocketConnect ==
  /\ page.mounted
  /\ Connect(PageConn)
  /\ page' = [page EXCEPT !.joinSent = TRUE, !.connectAt = Len(emitted)]

\* the server handles the join_claim of the page
PageJoinServed ==
  /\ page.joinSent
  /\ JoinClaim(PageConn, PageClaim)
  /\ page' = [page EXCEPT !.joinSent = FALSE]

\* the connection of the page is lost; the page has no 'disconnect' handler
PageConnectionLost ==
  /\ Disconnect(PageConn)
  /\ page' = [page EXCEPT !.joinSent = FALSE, !.lost = TRUE, !.lostAt = Len(emitted)]

\* [id].tsx lines 176-180: clearTimeout(timerRef.current) and the two setters
StopWaiting(pg) ==
  [pg EXCEPT !.timers = @ \ {pg.timerRef},
             !.showSlowResponseWarning = FALSE,
             !.isAiReplying = FALSE]

\* [id].tsx lines 157-197: the handlers of chat_message, typing and
\* claim_updated, as far as they change the message list, the indicator and
\* the warning; the test of line 176 is startsWith('ai')
PageOnEvent ==
  /\ page.seen < Len(delivered[PageConn])
  /\ LET e == emitted[delivered[PageConn][page.seen + 1]]
         handled == [page EXCEPT !.seen = @ + 1]
     IN page' = IF e.event # "chat_message" THEN handled
                ELSE LET listed == [handled EXCEPT !.messages = OnChatMessage(@, e.payload)]
                     IN IF e.payload.message_type = "ai" THEN StopWaiting(listed) ELSE listed

\* [id].tsx lines 254-267: handleFileChange keeps the file and posts it as
\* multipart/form-data to /claims/:id/documents; it only logs an error answer
PageSelectFile(f) ==
  /\ page.mounted
  /\ f # NoFile
  /\ UploadDocument(PageUser, PageClaim,
                    [file_name |-> Absent, file_url |-> Absent, document_type |-> Absent])
  /\ page' = [page EXCEPT !.file = f]

\* [id].tsx lines 208-233: sendMessage shows the indicator, arms a timeout
\* and keeps it in timerRef.current (the timeout kept there before stays
\* armed), adds the optimistic message and posts message_text and the file
\* as multipart/form-data; nothing keeps a second call from running while
\* the first awaits its answer
PageSendMessage(text) ==
  /\ page.mounted
  /\ Len(page.outbox) < MaxOps
  /\ text # "" \/ page.file # NoFile
  /\ LET n == Len(page.outbox) + 1
     IN page' = [page EXCEPT
                   !.isAiReplying = TRUE,
                   !.timers = @ \cup {n},
                   !.timerRef = n,
                   !.messages = Append(@, [id |-> TempId(n), message_type |-> "user",
                                           message_text |-> text]),
                   !.newMessage = "",
                   !.file = NoFile,
                   !.outbox = Append(@, [message_text |-> text, file |-> page.file,
                                         state |-> "sent", stored |-> 0, answer |-> 0])]

\* the timeout of [id].tsx line 212 runs: setShowSlowResponseWarning(true)
PageTimerFires(x) ==
  /\ x \in page.timers
  /\ page' = [page EXCEPT !.timers = @ \ {x}, !.showSlowResponseWarning = TRUE]

\* the server handles the POST /chat/:id/messages of the s-th call
PageSendServed(s) ==
  /\ s \in DOMAIN page.outbox
  /\ page.outbox[s].state = "sent"
  /\ SubmitMessage(PageUser, PageClaim, Absent, Absent)
  /\ page' = [page EXCEPT !.outbox[s].state = "answered", !.outbox[s].answer = last'.code]

\* [id].tsx lines 230-243: the answer of the s-th call arrives; an error
\* answer stops the timeout kept in timerRef.current, hides the indicator
\* and the warning and takes the optimistic message of the call out of the
\* list
PageSendAnswered(s) ==
  /\ s \in DOMAIN page.outbox
  /\ page.outbox[s].state = "answered"
  /\ LET ended == [page EXCEPT !.outbox[s].state = "done"]
     IN page' = IF page.outbox[s].answer >= 400
                THEN [StopWaiting(ended) EXCEPT
                        !.messages = SelectSeq(@, LAMBDA m : m.id # TempId(s))]
                ELSE ended

(***************************************************************************)
(* The chat submission endpoint the page is written for: it accepts the    *)
(* message text (and an optional file) of a multipart request, stores the  *)
(* message as a user message, publishes it and returns it.                 *)
(***************************************************************************)
\* the endpoint handles the request of the s-th call: it rejects it, or
\* stores the message
EndpointStores(s) ==
  /\ s \in DOMAIN page.outbox
  /\ page.outbox[s].state = "sent"
  /\ SubmitMessage(PageUser, PageClaim, page.outbox[s].message_text, "user")
  /\ page' = IF Len(chat_messages') > Len(chat_messages)
             THEN [page EXCEPT !.outbox[s].state = "stored",
                               !.outbox[s].stored = Len(chat_messages')]
             ELSE [page EXCEPT !.outbox[s].state = "answered", !.outbox[s].answer = last'.code]

\* the endpoint publishes the stored message of the s-th call and returns it
EndpointResponds(s) ==
  /\ s \in DOMAIN page.outbox
  /\ page.outbox[s].state = "stored"
  /\ \E p \in pending :
       /\ p.op = "submit" /\ p.row.id = page.outbox[s].stored
       /\ SubmitRespond(p)
  /\ page' = [page EXCEPT !.outbox[s].state = "answered", !.outbox[s].answer = last'.code]

(***************************************************************************)
(* The system.                                                             *)
(***************************************************************************)
\* a step of an HTTP handler or of an AI task that publishes nothing
Quiet == UNCHANGED <<hub, page>>

\* a step of an HTTP handler or of an AI task that publishes
Publish == Deliver /\ UNCHANGED <<connected, rooms, hubLast, page>>

\* positions of the turns sequence
TurnIds == 1..MaxTurns

Next ==
  \/ \E u \in Users, c \in ClaimIds, text \in Texts, type \in MsgTypes :
       SubmitMessage(u, c, text, type) /\ Quiet
  \/ \E p \in pending : SubmitRespond(p) /\ Publish
  \/ \E t \in TurnIds : AiReadClaim(t) /\ Quiet
  \/ \E t \in TurnIds : AiReadProgress(t) /\ Quiet
  \/ \E t \in TurnIds : ProviderResponds(t) /\ Quiet
  \/ \E t \in TurnIds : ProviderFails(t) /\ Quiet
  \/ \E t \in TurnIds : AiInsert(t) /\ Quiet
  \/ \E t \in TurnIds : AiEmit(t) /\ Publish
  \/ \E u \in Users, c \in ClaimIds : GetHistory(u, c) /\ Quiet
  \/ \E u \in Users, c \in ClaimIds : Escalate(u, c) /\ Quiet
  \/ \E p \in pending : EscalateRespond(p) /\ Publish
  \/ \E u \in Users, c \in ClaimIds, in \in UpdateInputs : UpdateClaim(u, c, in) /\ Quiet
  \/ \E p \in pending : UpdateRespond(p) /\ Publish
  \/ \E u \in Users, c \in ClaimIds, d \in DocInputs : UploadDocument(u, c, d) /\ Quiet

Spec == Init /\ [][Next]_vars

\* The continuations of the server always run: the store answers every
\* statement (with rows or with an error) and Node schedules the callback.
\* Nothing makes the completion provider answer.
ServerFairness ==
  /\ \A t \in TurnIds :
       /\ WF_vars(AiReadClaim(t) /\ Quiet)
       /\ WF_vars(AiReadProgress(t) /\ Quiet)
       /\ WF_vars(AiInsert(t) /\ Quiet)
       /\ WF_vars(AiEmit(t) /\ Publish)
  /\ WF_vars(\E p \in pending : SubmitRespond(p) /\ Publish)
  /\ WF_vars(\E p \in pending : EscalateRespond(p) /\ Publish)
  /\ WF_vars(\E p \in pending : UpdateRespond(p) /\ Publish)

LiveSpec == Init /\ [][Next]_vars /\ ServerFairness

\* The Socket.IO server with its clients: connections open and close, join
\* and leave rooms (join_claim takes any claim id from any client), while the
\* escalate and update routes, called by the owner of a claim (the update
\* with a new status), publish to the claim's room.
HubNext ==
  \/ \E k \in Conns : Connect(k) /\ UNCHANGED <<server, page>>
  \/ \E k \in Conns, c \in ClaimIds : JoinClaim(k, c) /\ UNCHANGED <<server, page>>
  \/ \E k \in Conns, c \in ClaimIds : LeaveClaim(k, c) /\ UNCHANGED <<server, page>>
  \/ \E k \in Conns : Disconnect(k) /\ UNCHANGED <<server, page>>
  \/ \E c \in ClaimIds \cap DOMAIN claims : Escalate(claims[c].user_id, c) /\ Quiet
  \/ \E p \in pending : EscalateRespond(p) /\ Publish
  \/ \E c \in ClaimIds \cap DOMAIN claims, in \in {x \in UpdateInputs : x.status = "accepted"} :
       UpdateClaim(claims[c].user_id, c, in) /\ Quiet
  \/ \E p \in pending : UpdateRespond(p) /\ Publish

HubSpec == Init /\ [][HubNext]_vars

\* The claim page of the owner of a claim with the backend: the page loads,
\* connects, loses its connection and reconnects, picks files and sends
\* messages, while the owner also escalates and sends a message from a
\* client that posts JSON.
ClientNext ==
  \/ PageMount /\ UNCHANGED <<server, hub>>
  \/ PageFetchServed /\ UNCHANGED hub
  \/ PageFetchApply /\ UNCHANGED <<server, hub>>
  \/ PageSocketConnect /\ UNCHANGED server
  \/ PageJoinServed /\ UNCHANGED server
  \/ PageConnectionLost /\ UNCHANGED server
  \/ PageOnEvent /\ UNCHANGED <<server, hub>>
  \/ \E f \in Files : PageSelectFile(f) /\ UNCHANGED hub
  \/ \E text \in Inputs : PageSendMessage(text) /\ UNCHANGED <<server, hub>>
  \/ \E x \in 1..MaxOps : PageTimerFires(x) /\ UNCHANGED <<server, hub>>
  \/ \E s \in 1..MaxOps : PageSendServed(s) /\ UNCHANGED hub
  \/ \E s \in 1..MaxOps : PageSendAnswered(s) /\ UNCHANGED <<server, hub>>
  \/ SubmitMessage(PageUser, PageClaim, "hi", "user") /\ Quiet
  \/ \E p \in pending : SubmitRespond(p) /\ Publish
  \/ Escalate(PageUser, PageClaim) /\ Quiet
  \/ \E p \in pending : EscalateRespond(p) /\ Publish

ClientSpec == Init /\ [][ClientNext]_vars

\* The claims routes called by the users: claims are created, updated (with
\* details or with a status), given documents, and their progress is read.
ClaimsNext ==
  \/ \E u \in Users, in \in CreateInputs, now \in Clock : CreateClaim(u, in, now) /\ Quiet
  \/ \E p \in pending : CreateRespond(p) /\ Quiet
  \/ \E u \in Users, c \in ClaimIds, in \in UpdateInputs \cup StatusInputs :
       UpdateClaim(u, c, in) /\ Quiet
  \/ \E p \in pending : UpdateRespond(p) /\ Publish
  \/ \E u \in Users, c \in ClaimIds, d \in DocInputs : UploadDocument(u, c, d) /\ Quiet
  \/ \E u \in Users, c \in ClaimIds : GetProgress(u, c) /\ Quiet

ClaimsSpec == Init /\ [][ClaimsNext]_vars

\* A store with one claim, created through POST /api/claims by user 1 with
\* any claim type.
ValidInit ==
  /\ \E T \in ClaimTypes :
       claims = (1 :> NewClaim(1, [claim_type |-> T, incident_description |-> "Hail damage"], 1))
  /\ claim_progress =
       << [claim_id |-> 1, step_id |-> "submitted", step_title |-> "Claim Submitted",
           status |-> "completed"] >>
  /\ claim_documents = <<>>
  /\ chat_messages = <<>>
  /\ author = <<>>
  /\ pending = {}
  /\ turns = <<>>
  /\ emitted = <<>>
  /\ last = Response("none", 0, 0, Undefined, 0, Undefined)
  /\ nOps = 0
  /\ connected = {}
  /\ rooms = [k \in Conns |-> {}]
  /\ delivered = [k \in Conns |-> <<>>]
  /\ hubLast = [n |-> 0, ev |-> "none", conn |-> 0, claim |-> 0, before |-> {}, at |-> 0]
  /\ page = PageInit

\* The owner of a claim uploads documents of any type, the assessor gives
\* its verdicts, and the Validation Engine is run on the claim.
ValidNext ==
  \/ \E c \in DOMAIN claims, d \in TypedDocs : UploadDocument(claims[c].user_id, c, d) /\ Quiet
  \/ \E i \in 1..MaxOps, v \in Verdicts : ValidateDocument(i, v) /\ Quiet
  \/ \E c \in DOMAIN claims : ComputeValidation(c) /\ Quiet

ValidSpec == ValidInit /\ [][ValidNext]_vars

\* The owners of the two seeded claims chat at the same time: each submits
\* user messages on their own claim while the AI tasks of both claims run.
CrossNext ==
  \/ \E c \in DOMAIN claims : SubmitMessage(claims[c].user_id, c, "hi", "user") /\ Quiet
  \/ \E p \in pending : SubmitRespond(p) /\ Publish
  \/ \E t \in TurnIds : AiReadClaim(t) /\ Quiet
  \/ \E t \in TurnIds : AiReadProgress(t) /\ Quiet
  \/ \E t \in TurnIds : ProviderResponds(t) /\ Quiet
  \/ \E t \in TurnIds : ProviderFails(t) /\ Quiet
  \/ \E t \in TurnIds : AiInsert(t) /\ Quiet
  \/ \E t \in TurnIds : AiEmit(t) /\ Publish

CrossSpec == Init /\ [][CrossNext]_vars

\* The store after an earlier exchange on claim 2: its owner has sent one
\* user message, the AI task has answered it and has ended. Nothing is in
\* flight, and the requests are counted from here.
EarlierMessage ==
  [id |-> 1, claim_id |-> 2, message_type |-> "user", message_text |-> "hi"]

EarlierReply ==
  [id |-> 2, claim_id |-> 2, message_type |-> "ai", message_text |-> Completion]

HistoryInit ==
  /\ claims = SeedClaims
  /\ claim_progress = SeedProgress
  /\ claim_documents = <<>>
  /\ chat_messages = <<EarlierMessage, EarlierReply>>
  /\ author = <<[by |-> "submit", re |-> 0], [by |-> "turn", re |-> 1]>>
  /\ pending = {}
  /\ turns = << [msg |-> 1, claim |-> 2, userMessage |-> "hi", pc |-> "done",
                 claim_row |-> [claim_number |-> "CLM2025002", claim_type |-> "health",
                                status |-> "medical_review"],
                 progressSteps |-> SelectSeq(SeedProgress, LAMBDA st : st.claim_id = 2),
                 gen |-> "ok", content |-> Completion, persist |-> "ok", row |-> EarlierReply,
                 typingAt |-> 2] >>
  /\ emitted = << Emit(2, "chat_message", EarlierMessage),
                  Emit(2, "typing", [from |-> "ai"]),
                  Emit(2, "chat_message", EarlierReply) >>
  /\ last = Response("none", 0, 0, Undefined, 0, Undefined)
  /\ nOps = 0
  /\ connected = {}
  /\ rooms = [k \in Conns |-> {}]
  /\ delivered = [k \in Conns |-> <<>>]
  /\ hubLast = [n |-> 0, ev |-> "none", conn |-> 0, claim |-> 0, before |-> {}, at |-> 0]
  /\ page = PageInit

\* The owners of the two claims go on chatting and every user reads the
\* history of every claim.
HistoryNext ==
  \/ \E c \in DOMAIN claims : SubmitMessage(claims[c].user_id, c, "hi", "user") /\ Quiet
  \/ \E p \in pending : SubmitRespond(p) /\ Publish
  \/ \E t \in TurnIds : AiReadClaim(t) /\ Quiet
  \/ \E t \in TurnIds : AiReadProgress(t) /\ Quiet
  \/ \E t \in TurnIds : ProviderResponds(t) /\ Quiet
  \/ \E t \in TurnIds : ProviderFails(t) /\ Quiet
  \/ \E t \in TurnIds : AiInsert(t) /\ Quiet
  \/ \E t \in TurnIds : AiEmit(t) /\ Publish
  \/ \E u \in Users, c \in DOMAIN claims : GetHistory(u, c) /\ Quiet

HistorySpec == HistoryInit /\ [][HistoryNext]_vars

\* The claim page once it is shown: it has loaded the (empty) history of its
\* claim and its socket has joined the room of the claim. Nothing is in
\* flight, and the requests are counted from here.
ShownInit ==
  /\ claims = SeedClaims
  /\ claim_progress = SeedProgress
  /\ claim_documents = <<>>
  /\ chat_messages = <<>>
  /\ author = <<>>
  /\ pending = {}
  /\ turns = <<>>
  /\ emitted = <<>>
  /\ last = HistoryResponse(PageUser, PageClaim, TRUE)
  /\ nOps = 0
  /\ connected = {PageConn}
  /\ rooms = [k \in Conns |-> IF k = PageConn THEN {Room(PageClaim)} ELSE {}]
  /\ delivered = [k \in Conns |-> <<>>]
  /\ hubLast = [n |-> 2, ev |-> "join_claim", conn |-> PageConn, claim |-> PageClaim,
                before |-> {}, at |-> 0]
  /\ page = [PageInit EXCEPT !.mounted = TRUE, !.fetch = "done",
                             !.response = HistoryResponse(PageUser, PageClaim, TRUE)]

\* The owner chats on the page that is shown: messages are sent, several at
\* a time, the server answers them, the timeouts run, and the owner asks for
\* a human, which brings an assistant message to the page.
ChatNext ==
  \/ \E text \in Inputs : PageSendMessage(text) /\ UNCHANGED <<server, hub>>
  \/ \E x \in 1..MaxOps : PageTimerFires(x) /\ UNCHANGED <<server, hub>>
  \/ \E s \in 1..MaxOps : PageSendServed(s) /\ UNCHANGED hub
  \/ \E s \in 1..MaxOps : PageSendAnswered(s) /\ UNCHANGED <<server, hub>>
  \/ PageOnEvent /\ UNCHANGED <<server, hub>>
  \/ Escalate(PageUser, PageClaim) /\ Quiet
  \/ \E p \in pending : EscalateRespond(p) /\ Publish

ChatSpec == ShownInit /\ [][ChatNext]_vars

\* The owner chats on the page that is shown, against the chat submission
\* endpoint the page is written for.
ReconcileNext ==
  \/ \E text \in Inputs : PageSendMessage(text) /\ UNCHANGED <<server, hub>>
  \/ \E s \in 1..MaxOps : EndpointStores(s) /\ UNCHANGED hub
  \/ \E s \in 1..MaxOps : EndpointResponds(s) /\ Deliver /\ UNCHANGED <<connected, rooms, hubLast>>
  \/ \E s \in 1..MaxOps : PageSendAnswered(s) /\ UNCHANGED <<server, hub>>
  \/ PageOnEvent /\ UNCHANGED <<server, hub>>

ReconcileSpec == ShownInit /\ [][ReconcileNext]_vars

(***************************************************************************)
(* Notions the properties are stated with.                                 *)
(***************************************************************************)
\* user u is the owner recorded on the row of claim c
Owns(u, c) == c \in DOMAIN claims /\ claims[c].user_id = u

\* the persisted messages the AI task answering message m has inserted
RepliesTo(m) == {i \in DOMAIN chat_messages : author[i] = [by |-> "turn", re |-> m]}

\* the AI tasks started for message m
TurnsOf(m) == {t \in DOMAIN turns : turns[t].msg = m}

\* the positions of emitted at which event ev was sent to the room of claim c
EventsAt(c, ev) == {k \in DOMAIN emitted : emitted[k].room = Room(c) /\ emitted[k].event = ev}

\* the task has ended without a completion: canned reply, or nothing persisted
Failed(t) == turns[t].pc = "done" /\ (turns[t].gen # "ok" \/ turns[t].persist = "error")

\* the task has read the claim's context
HasReadContext(t) == turns[t].pc # "read_claim"

\* the task has finished writing: its reply is persisted, or it has ended
HasWritten(t) == turns[t].pc \in {"emit", "done"}

\* one step of the detached task t
TurnStep(t) ==
  \/ AiReadClaim(t) \/ AiReadProgress(t)
  \/ ProviderResponds(t) \/ ProviderFails(t)
  \/ AiInsert(t) \/ AiEmit(t)

(***************************************************************************)
(* C1..C10                                                                 *)
(***************************************************************************)
\* C1: AI turns of one claim never overlap: the turn of a later user message
\* has not read the claim's context unless the turn of every earlier user
\* message of that claim has finished writing (reply persisted, or turn
\* ended).
C1_TurnsSerialized ==
  \A t1 \in DOMAIN turns, t2 \in DOMAIN turns :
    (turns[t1].claim = turns[t2].claim /\ turns[t1].msg < turns[t2].msg /\ HasReadContext(t2))
      => HasWritten(t1)

\* C2: the assistant messages of one claim are persisted and published in
\* the order in which the user messages they answer were accepted.
C2_RepliesInAcceptanceOrder ==
  /\ \A i \in DOMAIN chat_messages, j \in DOMAIN chat_messages :
       (author[i].by = "turn" /\ author[j].by = "turn"
          /\ chat_messages[i].claim_id = chat_messages[j].claim_id
          /\ author[i].re < author[j].re)
         => i < j
  /\ \A a \in DOMAIN emitted, b \in DOMAIN emitted :
       (emitted[a].event = "chat_message" /\ emitted[b].event = "chat_message"
          /\ emitted[a].room = emitted[b].room
          /\ author[emitted[a].payload.id].by = "turn"
          /\ author[emitted[b].payload.id].by = "turn"
          /\ author[emitted[a].payload.id].re < author[emitted[b].payload.id].re)
         => a < b

\* a turn whose provider call failed has at most one reply; once its INSERT
\* has answered, the reply is the canned one, published once when the turn ends
C3_FallbackState ==
  \A t \in DOMAIN turns :
    turns[t].gen = "provider_error" =>
      /\ Cardinality(RepliesTo(turns[t].msg)) <= 1
      /\ turns[t].pc \in {"emit", "done"} =>
           \/ turns[t].persist = "error"
           \/ /\ Cardinality(RepliesTo(turns[t].msg)) = 1
              /\ \A i \in RepliesTo(turns[t].msg) :
                   /\ chat_messages[i] = [id |-> i, claim_id |-> turns[t].claim,
                                          message_type |-> "ai", message_text |-> Fallback]
                   /\ Cardinality({k \in EventsAt(turns[t].claim, "chat_message") :
                                     emitted[k].payload = chat_messages[i]})
                        = (IF turns[t].pc = "done" THEN 1 ELSE 0)

\* an error response to a submit is sent only by a step that stores nothing
\* and touches no AI task
C3_SenderStep ==
  (last' # last /\ last'.op = "submit" /\ last'.code >= 400)
    => UNCHANGED <<store, pending, turns, emitted>>

\* C3: when the provider call of a turn fails, the turn persists exactly one
\* assistant message, carrying the canned reply, for the claim of the user
\* message, and publishes it once as chat_message to that claim's room (the
\* INSERT answering); and no step of the server answers a submit request with
\* an error once its message is stored, so a provider failure never reaches
\* the sender.
C3_FallbackOnProviderFailure == []C3_FallbackState /\ [][C3_SenderStep]_vars

\* a turn whose provider call failed has persisted and published the canned reply
C3_Witness ==
  \E t \in DOMAIN turns :
    /\ turns[t].gen = "provider_error" /\ turns[t].pc = "done" /\ turns[t].persist = "ok"
    /\ last = Response("submit", claims[turns[t].claim].user_id, turns[t].claim,
                       [message_text |-> turns[t].userMessage, message_type |-> "user"],
                       201, [message |-> chat_messages[turns[t].msg]])

\* C4: once an AI turn has ended, a chat_message event has been published to
\* the claim's room after the typing event of that turn, on every path.
C4_TypingCleared ==
  \A t \in DOMAIN turns :
    turns[t].pc = "done" =>
      \E k \in EventsAt(turns[t].claim, "chat_message") : k > turns[t].typingAt

\* C5: every AI turn that was started eventually ends.
C5_EveryTurnEnds ==
  \A t \in TurnIds : (t \in DOMAIN turns) ~> (t \in DOMAIN turns /\ turns[t].pc = "done")

\* C6: a failed AI turn blocks nothing on its claim: while one exists, a new
\* user message of the owner can still be accepted and persisted, every
\* stored message can still be published, and every other turn of the claim
\* that waits for the server can still take its next step.
C6_FailedTurnNeverWedges ==
  \A t1 \in DOMAIN turns :
    Failed(t1) =>
      /\ (nOps < MaxOps /\ Cardinality(Triggering) < MaxTurns) =>
           ENABLED (/\ SubmitMessage(claims[turns[t1].claim].user_id, turns[t1].claim, "hi", "user")
                    /\ Len(chat_messages') = Len(chat_messages) + 1)
      /\ \A p \in pending :
           (p.op = "submit" /\ p.claim = turns[t1].claim) => ENABLED SubmitRespond(p)
      /\ \A t2 \in DOMAIN turns :
           (turns[t2].claim = turns[t1].claim /\ turns[t2].pc # "done") => ENABLED TurnStep(t2)

\* after a failed turn, a later user message of the claim got its reply
C6_Witness ==
  \E t1 \in DOMAIN turns, t2 \in DOMAIN turns :
    /\ Failed(t1) /\ turns[t1].persist = "ok"
    /\ turns[t2].claim = turns[t1].claim
    /\ turns[t1].row.id < turns[t2].msg
    /\ turns[t2].pc = "done" /\ turns[t2].persist = "ok"

\* C7: a stored message has at most one AI turn and at most one assistant
\* reply; a message whose type is not "user" has no turn and no reply; and a
\* room has received exactly one typing event per turn started for its claim.
C7_AtMostOneTurnPerMessage ==
  /\ \A m \in DOMAIN chat_messages :
       /\ Cardinality(TurnsOf(m)) <= 1
       /\ Cardinality(RepliesTo(m)) <= 1
       /\ (author[m].by # "submit" \/ chat_messages[m].message_type # "user")
            => (TurnsOf(m) = {} /\ RepliesTo(m) = {})
  /\ \A c \in ClaimIds :
       Cardinality(EventsAt(c, "typing")) = Cardinality({t \in DOMAIN turns : turns[t].claim = c})

\* a published user message with its answered turn next to a published non-user message
C7_Witness ==
  \E m1 \in DOMAIN chat_messages, m2 \in DOMAIN chat_messages :
    /\ author[m1].by = "submit" /\ chat_messages[m1].message_type = "user"
    /\ Cardinality(TurnsOf(m1)) = 1 /\ Cardinality(RepliesTo(m1)) = 1
    /\ author[m2].by = "submit" /\ chat_messages[m2].message_type = "ai"
    /\ chat_messages[m2].claim_id = chat_messages[m1].claim_id
    /\ \E k \in EventsAt(chat_messages[m2].claim_id, "chat_message") :
         emitted[k].payload = chat_messages[m2]

\* the request of a step is a mutating request of user u on claim c
SubmitBy(u, c) == \E text \in Texts, type \in MsgTypes : SubmitMessage(u, c, text, type)
UpdateBy(u, c) == \E in \in UpdateInputs : UpdateClaim(u, c, in)
UploadBy(u, c) == \E d \in DocInputs : UploadDocument(u, c, d)
MutatingRequest(u, c) == SubmitBy(u, c) \/ Escalate(u, c) \/ UpdateBy(u, c) \/ UploadBy(u, c)

\* the step changes no row, starts no continuation and no AI task, publishes nothing
NoEffect == UNCHANGED <<store, pending, turns, emitted>>

\* the request the response r answers lacks a required field
Malformed(r) ==
  \/ r.op = "submit" /\ (r.req.message_text = "" \/ r.req.message_type = "")
  \/ r.op = "upload" /\ (r.req.file_name = "" \/ r.req.file_url = "" \/ r.req.document_type = "")

\* a non-owner's mutating request is answered NotFound (500 when the store
\* throws) and has no effect
C8_NonOwnerStep ==
  \A u \in Users, c \in ClaimIds :
    (~Owns(u, c) /\ nOps' # nOps /\ MutatingRequest(u, c))
      => /\ last'.user = u /\ last'.claim = c
         /\ last'.code \in {404, 500}
         /\ NoEffect

\* C8 as stated (the store answering its queries): a mutating request of a
\* user who does not own the claim is answered NotFound and has no effect.
C8_NonOwnerGetsNotFound == [][C8_NonOwnerStep]_vars

\* a non-owner's mutating request is answered 400 exactly when it is
\* malformed, 404 or 500 otherwise, and has no effect
C8_NonOwnerRejectedStep ==
  \A u \in Users, c \in ClaimIds :
    (~Owns(u, c) /\ nOps' # nOps /\ MutatingRequest(u, c))
      => /\ last'.user = u /\ last'.claim = c
         /\ last'.code \in {400, 404, 500}
         /\ last'.code = 400 <=> Malformed(last')
         /\ NoEffect

\* C8 amended: a mutating request (submit message, escalate, upload document,
\* update claim) of a user who does not own the claim has no effect and gets
\* no success response: it is answered NotFound when it is well-formed, and
\* InvalidInput (400) when it is a submit or an upload that lacks a required
\* field, the fields being validated before ownership is looked up (500 when
\* the ownership query itself throws).
C8_NonOwnerRejected == [][C8_NonOwnerRejectedStep]_vars

\* a well-formed mutating request on another user's claim, which has messages, got NotFound
C8_Witness ==
  /\ last.op \in {"submit", "escalate", "update", "upload"}
  /\ last.claim \in DOMAIN claims /\ ~Owns(last.user, last.claim)
  /\ last.code = 404
  /\ \E i \in DOMAIN chat_messages : chat_messages[i].claim_id = last.claim

\* what the caller of the history route observes
Outcome(r) == [code |-> r.code, body |-> r.body]

\* C9: reading the history of a claim the caller does not own returns
\* NotFound and no message, and what the caller observes equals what it
\* observes for a claim id that names no claim (also when the store fails).
C9_HistoryHidesForeignClaims ==
  /\ \A u \in Users, c1 \in DOMAIN claims, c2 \in ClaimIds \ DOMAIN claims, ok \in BOOLEAN :
       ~Owns(u, c1) =>
         /\ Outcome(HistoryResponse(u, c1, ok)) = Outcome(HistoryResponse(u, c2, ok))
         /\ ok => Outcome(HistoryResponse(u, c1, ok)) = [code |-> 404, body |-> NotFoundBody]
  /\ (last.op = "history" /\ ~Owns(last.user, last.claim))
       => /\ last.code \in {404, 500}
          /\ last.body \in {NotFoundBody, ServerErrorBody}

\* the history of another user's claim, which holds messages, was asked for and refused
C9_Witness ==
  /\ last.op = "history" /\ last.code = 404
  /\ last.claim \in DOMAIN claims /\ ~Owns(last.user, last.claim)
  /\ \E i \in DOMAIN chat_messages : chat_messages[i].claim_id = last.claim

\* a submit request without message_text is answered 400 and has no effect
C10_EmptySubmissionStep ==
  \A u \in Users, c \in ClaimIds, type \in MsgTypes :
    (nOps' # nOps /\ SubmitMessage(u, c, "", type))
      => /\ last' = Response("submit", u, c, [message_text |-> "", message_type |-> type], 400,
                             [error |-> "message_text and message_type are required"])
         /\ NoEffect

\* C10: a submission without text is answered InvalidInput (400) and changes
\* nothing: no message is persisted, nothing is published, no AI turn starts.
C10_EmptySubmissionRejected == [][C10_EmptySubmissionStep]_vars

\* the owner of a claim with a stored message submitted no text and got 400
C10_Witness ==
  /\ last.op = "submit" /\ last.code = 400
  /\ last.req.message_text = "" /\ last.req.message_type = "user"
  /\ Owns(last.user, last.claim)
  /\ \E i \in DOMAIN chat_messages : chat_messages[i].claim_id = last.claim

(***************************************************************************)
(* C11..C17                                                                *)
(***************************************************************************)
\* the events a step publishes: the positions it adds to emitted
NewEvents == (Len(emitted) + 1)..Len(emitted')

\* the continuation of the pending request p runs in this step
Continues(p) == p \in pending /\ pending' = pending \ {p}

\* C11: every message persisted through the submit route has type "user",
\* and so has every message that route publishes: a claimant cannot make the
\* route persist or publish a message of type "ai" or of another type.
C11_ClaimantMessagesAreUserType ==
  /\ \A i \in DOMAIN chat_messages :
       author[i].by = "submit" => chat_messages[i].message_type = "user"
  /\ \A k \in DOMAIN emitted :
       (emitted[k].event = "chat_message" /\ author[emitted[k].payload.id].by = "submit")
         => emitted[k].payload.message_type = "user"

\* every published chat_message carries a row of chat_messages, of the claim
\* whose room it was published to; a message is published at most once; and
\* an AI task whose INSERT failed has ended without a row
C12_PublishedState ==
  /\ \A k \in DOMAIN emitted :
       emitted[k].event = "chat_message" =>
         /\ emitted[k].payload.id \in DOMAIN chat_messages
         /\ chat_messages[emitted[k].payload.id] = emitted[k].payload
         /\ emitted[k].room = Room(emitted[k].payload.claim_id)
         /\ \A j \in DOMAIN emitted :
              (emitted[j].event = "chat_message" /\ emitted[j].payload.id = emitted[k].payload.id)
                => j = k
  /\ \A t \in DOMAIN turns :
       turns[t].persist = "error" => (turns[t].pc = "done" /\ RepliesTo(turns[t].msg) = {})

\* the message a step publishes was stored before the step; a step in which
\* an INSERT fails publishes nothing
C12_PublishStep ==
  /\ \A k \in NewEvents :
       emitted'[k].event = "chat_message" =>
         /\ emitted'[k].payload.id \in DOMAIN chat_messages
         /\ chat_messages[emitted'[k].payload.id] = emitted'[k].payload
  /\ (\/ (last' # last /\ last'.code = 500)
      \/ \E t \in DOMAIN turns : turns[t].persist # "error" /\ turns'[t].persist = "error")
       => emitted' = emitted

\* C12: every chat_message event (user message, assistant reply, canned
\* reply, hand-off message) carries a message that was stored for the claim
\* of the room before the step that publishes it; and when the INSERT of a
\* message fails, no event is published for it, by that step or later.
C12_PublishedAfterPersisted == []C12_PublishedState /\ [][C12_PublishStep]_vars

\* a user message, the canned reply to it and a hand-off message are published
C12_Witness ==
  \E a \in DOMAIN emitted, b \in DOMAIN emitted, c \in DOMAIN emitted :
    /\ emitted[a].event = "chat_message" /\ author[emitted[a].payload.id].by = "submit"
    /\ emitted[b].event = "chat_message" /\ author[emitted[b].payload.id].by = "turn"
    /\ emitted[b].payload.message_text = Fallback
    /\ emitted[c].event = "chat_message" /\ author[emitted[c].payload.id].by = "escalate"

\* a 201 answer to a submit carries the stored message of that request, as
\* published, and no assistant reply
C13_ResponseState ==
  (last.op = "submit" /\ last.code = 201) =>
    /\ last.body.message.id \in DOMAIN chat_messages
    /\ chat_messages[last.body.message.id] = last.body.message
    /\ author[last.body.message.id].by = "submit"
    /\ last.body.message.claim_id = last.claim
    /\ last.body.message.message_text = last.req.message_text
    /\ last.body.message.message_type = last.req.message_type
    /\ \E k \in EventsAt(last.claim, "chat_message") : emitted[k].payload = last.body.message

\* the continuation of a stored submit can run whatever the AI tasks are doing
C13_NeverWaits ==
  \A p \in pending : p.op = "submit" => ENABLED SubmitRespond(p)

\* the step that answers a submit publishes the stored message in that same
\* step, answers 201 with it, and leaves the AI task of the message, if it
\* starts one, before its first read, with no reply stored
C13_RespondStep ==
  \A p \in pending :
    (p.op = "submit" /\ Continues(p)) =>
      /\ last' = Response("submit", p.user, p.claim, p.req, 201, [message |-> p.row])
      /\ p.row = chat_messages[p.row.id]
      /\ \E k \in NewEvents : emitted'[k] = Emit(p.claim, "chat_message", p.row)
      /\ RepliesTo(p.row.id) = {}
      /\ UNCHANGED store
      /\ \A t \in DOMAIN turns' : turns'[t].msg = p.row.id => turns'[t].pc = "read_claim"

\* C13: the answer to a submit never waits for the AI provider: it can always
\* be sent once the message is stored, it is sent in the step that publishes
\* the message, while the AI task of the message has not yet read anything,
\* and it carries the stored user message with its server-assigned id, never
\* the assistant reply.
C13_SubmitNeverWaitsForProvider ==
  [](C13_ResponseState /\ C13_NeverWaits) /\ [][C13_RespondStep]_vars

\* a submit was answered 201 while an earlier AI task of the claim waits for
\* the provider, and its own task has no reply
C13_Witness ==
  /\ last.op = "submit" /\ last.code = 201 /\ last.req.message_type = "user"
  /\ RepliesTo(last.body.message.id) = {}
  /\ \E t \in DOMAIN turns :
       /\ turns[t].claim = last.claim /\ turns[t].msg < last.body.message.id
       /\ turns[t].pc = "provider"

\* the hand-off messages of claim c whose escalate request has been answered
Escalated(c) ==
  {i \in DOMAIN chat_messages :
     /\ chat_messages[i].claim_id = c /\ author[i].by = "escalate"
     /\ \A p \in pending : p.row.id # i}

\* the flag the claim page reads from the claim row
ManualReviewRequired(c) ==
  /\ "manual_review_required" \in DOMAIN claims[c]
  /\ claims[c].manual_review_required = TRUE

\* C15: once an escalate on a claim has succeeded, the claim's
\* manual_review_required flag is true, in that state and in every later one.
C15_EscalatedStaysFlagged ==
  \A c \in DOMAIN claims : Escalated(c) # {} => ManualReviewRequired(c)

\* an escalate request of the owner stores one hand-off message and nothing
\* else (or fails with 500 and stores nothing); its continuation answers 200
\* with that message
C16_EscalateStep ==
  /\ \A u \in Users, c \in ClaimIds :
       (Owns(u, c) /\ nOps' # nOps /\ Escalate(u, c)) =>
         \/ /\ last' = Response("escalate", u, c, Undefined, 500, ServerErrorBody)
            /\ NoEffect
         \/ /\ chat_messages' = Append(chat_messages,
                                  [id |-> Len(chat_messages) + 1, claim_id |-> c,
                                   message_type |-> "ai", message_text |-> Handoff])
            /\ Cardinality(pending') = Cardinality(pending) + 1
            /\ UNCHANGED <<claims, claim_progress, claim_documents, turns, emitted, last>>
  /\ \A p \in pending :
       (p.op = "escalate" /\ Continues(p)) =>
         /\ last' = Response("escalate", p.user, p.claim, p.req, 200, [message |-> p.row])
         /\ p.row = chat_messages[p.row.id]
         /\ UNCHANGED store

\* the continuation of a stored escalate can always run
C16_EscalateAnswers ==
  \A p \in pending : p.op = "escalate" => ENABLED EscalateRespond(p)

\* C16: every escalate of the claim's owner succeeds (the store answering)
\* and stores exactly one hand-off message, also when the claim already has
\* one, so that n calls leave n hand-off messages; the call changes nothing
\* else of the claim.
C16_EscalateAlwaysAddsOneHandoff == []C16_EscalateAnswers /\ [][C16_EscalateStep]_vars

\* two escalates of the owner were answered 200 and left two hand-off messages
C16_Witness ==
  /\ last.op = "escalate" /\ last.code = 200 /\ Owns(last.user, last.claim)
  /\ pending = {}
  /\ Cardinality(Escalated(last.claim)) = 2
  /\ Cardinality({i \in DOMAIN chat_messages : chat_messages[i].message_text = Handoff}) = 2

\* the step that answers an escalate publishes the hand-off message and a
\* claim_updated event to the claim's room, no typing event, and starts no
\* AI task
C17_RespondStep ==
  \A p \in pending :
    (p.op = "escalate" /\ Continues(p)) =>
      /\ \E k \in NewEvents : emitted'[k] = Emit(p.claim, "chat_message", p.row)
      /\ \E k \in NewEvents :
           emitted'[k].room = Room(p.claim) /\ emitted'[k].event = "claim_updated"
      /\ \A k \in NewEvents : emitted'[k].event # "typing"
      /\ turns' = turns

\* C17: a successful escalate publishes a chat_message event with the
\* hand-off message and a claim_updated event to the claim's room; it starts
\* no AI turn and publishes no typing event.
C17_EscalatePublishesBoth == [][C17_RespondStep]_vars

(***************************************************************************)
(* C18, C19: the fan-out hub                                               *)
(***************************************************************************)
\* the positions of emitted that connection k has received
ReceivedBy(k) == {delivered[k][j] : j \in DOMAIN delivered[k]}

\* the positions of emitted that connection k receives in this step
ReceivedNow(k) == {delivered'[k][j] : j \in (Len(delivered[k]) + 1)..Len(delivered'[k])}

\* in every step, a connection receives exactly the events the step
\* publishes to a room the connection is in when the step starts, and keeps
\* what it had received
C18_DeliverStep ==
  \A k \in Conns :
    /\ Len(delivered'[k]) >= Len(delivered[k])
    /\ SubSeq(delivered'[k], 1, Len(delivered[k])) = delivered[k]
    /\ ReceivedNow(k) = {i \in NewEvents : k \in connected /\ emitted'[i].room \in rooms[k]}

\* C18: an event is delivered to exactly the connections that are members of
\* the room at the moment it is published: not to a connection that has
\* left, has disconnected or is only in other rooms; and a step that
\* publishes nothing (a join included) delivers nothing, so an event
\* published while a connection was not a member never reaches it.
C18_DeliveredToMembersOnly ==
  [](\A k \in Conns : k \notin connected => rooms[k] = {}) /\ [][C18_DeliverStep]_vars

\* a connection is in a room, has received a later event of that room, and
\* has not received an earlier one, published before it joined
C18_Witness ==
  \E k \in Conns, i \in DOMAIN emitted, j \in DOMAIN emitted :
    /\ i < j /\ emitted[i].room = emitted[j].room
    /\ k \in connected /\ emitted[j].room \in rooms[k]
    /\ j \in ReceivedBy(k) /\ i \notin ReceivedBy(k)
    /\ \E k2 \in Conns \ {k} : k2 \in connected /\ rooms[k2] # {} /\ ReceivedBy(k2) = {}

\* C19: join_claim and leave_claim are idempotent: after a join the socket's
\* rooms are the ones it had plus the claim's room, the same set when it was
\* already in it; after a leave they are the ones it had minus the claim's
\* room, the same set when it was not in it, and without that room however
\* often it had joined; and no connection receives an event twice.
C19_JoinLeaveIdempotent ==
  /\ hubLast.ev = "join_claim" =>
       /\ rooms[hubLast.conn] = hubLast.before \cup {Room(hubLast.claim)}
       /\ Room(hubLast.claim) \in hubLast.before => rooms[hubLast.conn] = hubLast.before
  /\ hubLast.ev = "leave_claim" =>
       /\ rooms[hubLast.conn] = hubLast.before \ {Room(hubLast.claim)}
       /\ Room(hubLast.claim) \notin hubLast.before => rooms[hubLast.conn] = hubLast.before
  /\ \A k \in Conns : Cardinality(ReceivedBy(k)) = Len(delivered[k])

\* a connection joined a room it was already in, and then received the one
\* event published to the room, once
C19_Witness ==
  /\ hubLast.ev = "join_claim" /\ Room(hubLast.claim) \in hubLast.before
  /\ Len(emitted) = hubLast.at + 1
  /\ emitted[Len(emitted)].room = Room(hubLast.claim)
  /\ delivered[hubLast.conn] = <<Len(emitted)>>

(***************************************************************************)
(* C14, C20: the claim page                                                *)
(***************************************************************************)
\* the ids of a list of messages
Ids(ms) == [i \in DOMAIN ms |-> ms[i].id]

\* the submissions of the page that the server has handled and that carried a file
AttachmentSubmitted ==
  {s \in DOMAIN page.outbox : page.outbox[s].state # "sent" /\ page.outbox[s].file # NoFile}

\* C14: once the server has handled a submission that carries an attachment,
\* claim_documents holds a row of the claim that references the file, and
\* this before any chat_message of the submission is published.
C14_AttachmentBecomesDocument ==
  \A s \in AttachmentSubmitted :
    \E i \in DOMAIN claim_documents :
      /\ claim_documents[i].claim_id = PageClaim
      /\ claim_documents[i].file_name = page.outbox[s].file

\* the page is connected and in the claim's room, has loaded without error,
\* and has nothing in flight: no request, no join, no event left to handle,
\* and the server has no continuation left to run
PageSettled ==
  /\ page.mounted /\ page.fetch = "done" /\ ~page.error
  /\ PageConn \in connected /\ Room(PageClaim) \in rooms[PageConn]
  /\ ~page.joinSent
  /\ page.seen = Len(delivered[PageConn])
  /\ \A s \in DOMAIN page.outbox : page.outbox[s].state = "done"
  /\ pending = {}

\* the chat_message events of the claim's room that were published while
\* the connection of the page was down, between its last loss and its return
PublishedWhileDown ==
  {i \in EventsAt(PageClaim, "chat_message") : page.lostAt < i /\ i <= page.connectAt}

\* C20: after the connection of the page was lost and is re-established, the
\* page ends up, once it has re-joined and nothing is in flight any more,
\* showing the stored history of the claim; in particular its list holds
\* every message that was published while the connection was down.
C20_ResyncAfterReconnect ==
  (page.lost /\ PageSettled) =>
    \A i \in PublishedWhileDown :
      \E j \in DOMAIN page.messages : page.messages[j].id = emitted[i].payload.id

(***************************************************************************)
(* C21..C30                                                                *)
(***************************************************************************)
\* a step leaves every stored message as it was, and the history of every
\* claim after the step starts with the history before it
C21_AppendStep ==
  /\ Len(chat_messages') >= Len(chat_messages)
  /\ \A i \in DOMAIN chat_messages : chat_messages'[i] = chat_messages[i]
  /\ \A c \in DOMAIN claims :
       /\ Len(HistoryOf(c, 1)') >= Len(HistoryOf(c, 1))
       /\ SubSeq(HistoryOf(c, 1)', 1, Len(HistoryOf(c, 1))) = HistoryOf(c, 1)

\* C21: stored chat messages are append-only: no step of any operation
\* (submit, AI task, escalate, claim update, document upload, history read)
\* changes or removes a stored message, and the history of a claim only
\* grows at its end.
C21_MessagesAppendOnly == [][C21_AppendStep]_vars

\* a user message, the assistant's reply to it and a hand-off message are
\* stored for one claim, in that order of arrival
C21_Witness ==
  \E c \in DOMAIN claims :
    /\ Len(HistoryOf(c, 1)) = 3
    /\ {author[i].by : i \in DOMAIN chat_messages} = {"submit", "turn", "escalate"}

\* the terminal statuses
Terminal == {"accepted", "rejected"}

\* C22: the status of a claim that is accepted or rejected is changed by no
\* step of the routes the claimant can call (create, update, upload, read
\* progress) and by no automated step.
C22_TerminalStatusKept ==
  [][\A c \in DOMAIN claims :
       claims[c].status \in Terminal => claims'[c].status = claims[c].status]_vars

\* no two stored claims have the same claim number
C23_NumbersDistinct ==
  \A c \in DOMAIN claims, d \in DOMAIN claims :
    c # d => claims[c].claim_number # claims[d].claim_number

\* a step keeps every stored claim and its claim number
C23_NumberKept ==
  \A c \in DOMAIN claims :
    c \in DOMAIN claims' /\ claims'[c].claim_number = claims[c].claim_number

\* C23: the claim number of a claim never changes once the claim is stored,
\* and no two stored claims share a claim number, whatever claims are
\* created (also two in the same millisecond) and updated.
C23_ClaimNumberImmutableAndUnique == []C23_NumbersDistinct /\ [][C23_NumberKept]_vars

\* two claims were created through the route, next to the two seeded ones
C23_Witness ==
  /\ Cardinality(DOMAIN claims) = 4
  /\ \E c \in DOMAIN claims, d \in DOMAIN claims :
       /\ claims[c].claim_number = ClaimNumber(1)
       /\ claims[d].claim_number = ClaimNumber(2)

\* the ValidationStatus the engine computes for claim c in this state
Validation(c) == ValidationStatus(claims[c].claim_type, DocsOf(c))

\* the counters of a ValidationSummary add up to its total
Conserved(vs) ==
  /\ vs.validation_summary.total_items = Len(vs.items)
  /\ vs.validation_summary.total_items =
       vs.validation_summary.completed_items + vs.validation_summary.missing_items
         + vs.validation_summary.invalid_items + vs.validation_summary.review_items

\* C24: every ValidationStatus the engine computes, the one it last answered
\* with and the one of every claim in every state, satisfies
\* total_items = completed_items + missing_items + invalid_items + review_items.
C24_Conservation ==
  /\ last.op = "validate" => Conserved(last.body.validation_status)
  /\ \A c \in DOMAIN claims : Conserved(Validation(c))

\* the engine answered for a claim with a completed, a missing and an
\* invalid or to-review item, one of them fed by a document not yet assessed
C24_Witness ==
  /\ last.op = "validate"
  /\ last.body.validation_status.validation_summary.completed_items = 1
  /\ last.body.validation_status.validation_summary.missing_items = 1
  /\ last.body.validation_status.validation_summary.review_items = 1
  /\ \E i \in DOMAIN claim_documents : claim_documents[i].status = "pending_review"
  /\ last.body.validation_status = Validation(last.claim)

\* notions of the decision hint
RequiredMissing(vs) ==
  \E k \in DOMAIN vs.items : vs.items[k].required /\ vs.items[k].state = "missing"
ToReview(vs) ==
  \E k \in DOMAIN vs.items : vs.items[k].state \in {"needs_review", "invalid"}
RequiredOk(vs) ==
  \A k \in DOMAIN vs.items : vs.items[k].required => vs.items[k].state = "ok"

\* the three clauses as the claim words them: the third gives
\* ready_for_review whenever all required items are ok
C25_HintAsStated(vs) ==
  /\ vs.decision_hint = "awaiting_documents" <=> RequiredMissing(vs)
  /\ (~RequiredMissing(vs) /\ ToReview(vs)) => vs.decision_hint = "needs_review"
  /\ RequiredOk(vs) => vs.decision_hint = "ready_for_review"

\* C25 as stated: the decision hint of every computed ValidationStatus is
\* awaiting_documents exactly while a required item is missing, needs_review
\* while none is missing and some item is needs_review or invalid, and
\* ready_for_review once all required items are ok.
C25_DecisionHintAsStated ==
  /\ last.op = "validate" => C25_HintAsStated(last.body.validation_status)
  /\ \A c \in DOMAIN claims : C25_HintAsStated(Validation(c))

\* the clauses with the third one read after the second
C25_Hint(vs) ==
  /\ vs.decision_hint = "awaiting_documents" <=> RequiredMissing(vs)
  /\ vs.decision_hint = "needs_review" <=> (~RequiredMissing(vs) /\ ToReview(vs))
  /\ vs.decision_hint = "ready_for_review" <=> (RequiredOk(vs) /\ ~ToReview(vs))

\* C25 amended: the decision hint is awaiting_documents exactly while a
\* required item is missing, needs_review exactly while none is missing and
\* some item is needs_review or invalid, and ready_for_review exactly while
\* all required items are ok and no item is needs_review or invalid.
C25_DecisionHint ==
  /\ last.op = "validate" => C25_Hint(last.body.validation_status)
  /\ \A c \in DOMAIN claims : C25_Hint(Validation(c))

\* the engine answered needs_review for a claim whose required items are
\* all ok and whose optional item is invalid or to review
C25_Witness ==
  /\ last.op = "validate"
  /\ RequiredOk(last.body.validation_status)
  /\ ToReview(last.body.validation_status)
  /\ last.body.validation_status.decision_hint = "needs_review"

\* the document types that feed a required item of the checklist of T
RequiredTypes(T) ==
  {Checklist(T)[k].doc_type : k \in {j \in DOMAIN Checklist(T) : Checklist(T)[j].required}}

\* one more document of type t of claim c, one that passed validation
PassedDocument(c, t) ==
  [id |-> Len(claim_documents) + 1, claim_id |-> c, file_name |-> "scan.pdf",
   file_url |-> "s3://scan", document_type |-> t, status |-> "valid"]

\* with one more valid document of any required type, the progress of the
\* claim is not lower than it is now
C26_ProgressState ==
  \A c \in DOMAIN claims : \A t \in RequiredTypes(claims[c].claim_type) :
    ValidationStatus(claims[c].claim_type, Append(DocsOf(c), PassedDocument(c, t))).progress
      >= Validation(c).progress

\* a step in which a document of a required type passes validation does not
\* lower the progress of its claim
C26_ProgressStep ==
  \A i \in DOMAIN claim_documents :
    (/\ claim_documents[i].status # "valid"
     /\ claim_documents'[i].status = "valid"
     /\ claim_documents[i].document_type
          \in RequiredTypes(claims[claim_documents[i].claim_id].claim_type))
      => Validation(claim_documents[i].claim_id).progress'
           >= Validation(claim_documents[i].claim_id).progress

\* C26: adding a valid document of a required type to a claim never lowers
\* the progress the engine computes for it, for every claim type and every
\* set of documents the claim already has (also one that holds a document
\* of that type).
C26_ProgressMonotonic == []C26_ProgressState /\ [][C26_ProgressStep]_vars

\* the second document of a claim, of a required type, passed validation
\* after a first one of the same type did, and the engine answered
C26_Witness ==
  /\ last.op = "validate"
  /\ last.body.validation_status = Validation(last.claim)
  /\ last.body.validation_status.progress > 0
  /\ \E i \in DOMAIN claim_documents, j \in DOMAIN claim_documents :
       /\ i < j
       /\ claim_documents[i].document_type = claim_documents[j].document_type
       /\ claim_documents[i].status = "valid" /\ claim_documents[j].status = "valid"
       /\ claim_documents[i].document_type \in RequiredTypes(claims[last.claim].claim_type)

\* the update requests whose UPDATE has changed a row and that are not yet answered
PendingUpdates == {p \in pending : p.op = "update"}

\* a step of the update route: a request that fails (500, or 404 for a claim
\* that is missing or not the caller's) changes no claim and publishes
\* nothing; a request whose UPDATE succeeds returns the status it wrote;
\* the continuation of a successful update answers 200 and publishes one
\* claim_updated event, to the room of the claim, with that status; and no
\* other step publishes a claim_updated event
C28_UpdateStep ==
  (nOps' # nOps \/ pending' # pending \/ emitted' # emitted) =>
    /\ (nOps' # nOps /\ last' # last /\ last'.op = "update") =>
         /\ last'.code \in {404, 500}
         /\ last'.code = 404 => ~Owns(last'.user, last'.claim)
         /\ claims' = claims /\ emitted' = emitted /\ pending' = pending
    /\ \A p \in PendingUpdates' \ PendingUpdates :
         /\ Owns(p.user, p.claim)
         /\ p.row.status = claims'[p.claim].status
         /\ p.row.status = Coalesce(p.req.status, claims[p.claim].status)
         /\ emitted' = emitted
    /\ \A p \in PendingUpdates \ PendingUpdates' :
         /\ last'.code = 200 /\ last'.body.claim = p.row
         /\ Cardinality(NewEvents) = 1
         /\ \A k \in NewEvents :
              /\ emitted'[k].room = Room(p.claim)
              /\ emitted'[k].event = "claim_updated"
              /\ emitted'[k].payload.id = p.claim
              /\ emitted'[k].payload.status = p.row.status
    /\ \A k \in NewEvents :
         emitted'[k].event = "claim_updated" => PendingUpdates # PendingUpdates'

\* C28: each update of a claim that succeeds publishes exactly one
\* claim_updated event, to the room of the claim, carrying the status the
\* update left on the claim; an update that fails (claim missing or not
\* the caller's, or the store throwing) publishes no event.
C28_UpdatePublishesOnce == [][C28_UpdateStep]_vars

\* the owner's update to "accepted" was answered 200 and its event is the
\* only claim_updated event published
C28_Witness ==
  /\ last.op = "update" /\ last.code = 200
  /\ last.req.status = "accepted"
  /\ Cardinality(EventsAt(last.claim, "claim_updated")) = 1
  /\ \A k \in EventsAt(last.claim, "claim_updated") : emitted[k].payload.status = "accepted"

\* a step keeps every stored progress step as it was; the steps a progress
\* read answers with are the steps of the claim stored at that moment
C29_ProgressStep ==
  /\ Len(claim_progress') >= Len(claim_progress)
  /\ \A i \in DOMAIN claim_progress : claim_progress'[i] = claim_progress[i]
  /\ \A c \in DOMAIN claims :
       {StepsOf(c)[j] : j \in DOMAIN StepsOf(c)} \subseteq {StepsOf(c)'[j] : j \in DOMAIN StepsOf(c)'}
  /\ (last' # last /\ last'.op = "progress" /\ last'.code = 200) =>
       {last'.body.progress[j].id : j \in DOMAIN last'.body.progress}
         = {i \in DOMAIN claim_progress : claim_progress[i].claim_id = last'.claim}

\* a progress read answers with the steps in the order they were created
\* (the ids of the rows grow along the answer), each as it is stored
C29_ProgressRead ==
  (last.op = "progress" /\ last.code = 200) =>
    /\ \A j \in DOMAIN last.body.progress, k \in DOMAIN last.body.progress :
         j < k => last.body.progress[j].id < last.body.progress[k].id
    /\ \A j \in DOMAIN last.body.progress :
         /\ last.body.progress[j].id \in DOMAIN claim_progress
         /\ claim_progress[last.body.progress[j].id].claim_id = last.claim
         /\ claim_progress[last.body.progress[j].id].step_id = last.body.progress[j].step_id

PublishedAt(m) ==
  {k \in DOMAIN emitted : emitted[k].event = "chat_message" /\ emitted[k].payload.id = m}

\* C30: for each accepted user message that has been answered to its
\* sender, the events of the claim's room come in this order: the
\* chat_message event of the user message, directly followed by the typing
\* event, and only later the chat_message event of the assistant's reply;
\* no typing event of a message is published after the reply to it.
C30_EventOrder ==
  /\ \A t \in DOMAIN turns :
       /\ turns[t].typingAt \in DOMAIN emitted
       /\ emitted[turns[t].typingAt] = Emit(turns[t].claim, "typing", [from |-> "ai"])
       /\ PublishedAt(turns[t].msg) = {turns[t].typingAt - 1}
       /\ emitted[turns[t].typingAt - 1].room = Room(turns[t].claim)
       /\ \A r \in RepliesTo(turns[t].msg) : \A k \in PublishedAt(r) :
            /\ k > turns[t].typingAt
            /\ emitted[k].room = Room(turns[t].claim)
  /\ Cardinality({k \in DOMAIN emitted : emitted[k].event = "typing"}) = Len(turns)
  /\ \A m \in DOMAIN chat_messages :
       (author[m].by = "submit" /\ chat_messages[m].message_type = "user"
          /\ PublishedAt(m) # {})
         => TurnsOf(m) # {}

\* two user messages of one claim were accepted, and the reply to the
\* first was published after the typing event of the second
C30_Witness ==
  \E t \in DOMAIN turns, u \in DOMAIN turns :
    /\ t < u
    /\ turns[t].claim = turns[u].claim
    /\ \E r \in RepliesTo(turns[t].msg) : \E k \in PublishedAt(r) : k > turns[u].typingAt

(***************************************************************************)
(* C31..C38                                                                *)
(***************************************************************************)
\* claim c has its first progress step
HasInitialStep(c) ==
  \E i \in DOMAIN claim_progress :
    /\ claim_progress[i].claim_id = c
    /\ claim_progress[i].step_id = "submitted"
    /\ claim_progress[i].status = "completed"

\* C36: every stored claim whose creation has been answered has the progress
\* step "submitted" with status completed, and a creation that is answered
\* with an error has stored no claim.
C36_ClaimsHaveInitialStep ==
  /\ \A c \in DOMAIN claims :
       (\A p \in pending : ~(p.op = "create" /\ p.claim = c)) => HasInitialStep(c)
  /\ (last.op = "create" /\ last.code = 500) => last.claim \notin DOMAIN claims

\* the columns of a claim that PUT /:id can be asked to set
Updatable == {"status", "incident_description", "estimated_completion"}

\* a step in which the UPDATE of a request p succeeds: a column changes only
\* if the request supplies a value for it, and then to that value; every
\* other column of the claim and every other claim stay as they were
C38_UpdateStep ==
  \A p \in PendingUpdates' \ PendingUpdates :
    /\ \A f \in Updatable :
         claims'[p.claim][f] # claims[p.claim][f] =>
           (Truthy(p.req[f]) /\ claims'[p.claim][f] = p.req[f])
    /\ \A f \in Updatable : p.req[f] = Null => claims'[p.claim][f] = claims[p.claim][f]
    /\ \A f \in DOMAIN claims[p.claim] \ Updatable : claims'[p.claim][f] = claims[p.claim][f]
    /\ DOMAIN claims'[p.claim] = DOMAIN claims[p.claim]
    /\ \A d \in DOMAIN claims \ {p.claim} : claims'[d] = claims[d]

C31_ClaimsIndependent ==
  \A t1 \in DOMAIN turns, c \in DOMAIN claims :
    (turns[t1].pc = "provider" /\ c # turns[t1].claim) =>
      /\ (nOps < MaxOps /\ Cardinality(Triggering) < MaxTurns) =>
           ENABLED (/\ SubmitMessage(claims[c].user_id, c, "hi", "user")
                    /\ Len(chat_messages') = Len(chat_messages) + 1
                    /\ chat_messages'[Len(chat_messages')].claim_id = c)
      /\ \A p \in pending :
           (p.op = "submit" /\ p.claim = c) => ENABLED SubmitRespond(p)
      /\ \A t2 \in DOMAIN turns :
           (turns[t2].claim = c /\ turns[t2].pc # "done") => ENABLED TurnStep(t2)

\* a turn of one claim still waits for its provider while a turn of another
\* claim, started after it, has stored and published its reply
C31_Witness ==
  \E t1 \in DOMAIN turns, t2 \in DOMAIN turns :
    /\ turns[t1].pc = "provider"
    /\ t1 < t2
    /\ turns[t2].claim # turns[t1].claim
    /\ turns[t2].pc = "done" /\ turns[t2].gen = "ok" /\ turns[t2].persist = "ok"
    /\ \E k \in DOMAIN emitted : emitted[k] = Emit(turns[t2].claim, "chat_message", turns[t2].row)

\* C37: a history read of an owned claim that is answered 200 returns the
\* persisted messages of that claim, all of them and each once, none of
\* another claim, each as stored, oldest first, and every assistant reply
\* after the user message that triggered it.
C37_HistoryStep ==
  (nOps' = nOps + 1 /\ pending' = pending /\ last'.op = "history" /\ last'.code = 200) =>
    LET h == last'.body.history
        mine == {i \in DOMAIN chat_messages : chat_messages[i].claim_id = last'.claim}
    IN /\ Owns(last'.user, last'.claim)
       /\ {h[j].id : j \in DOMAIN h} = mine
       /\ Len(h) = Cardinality(mine)
       /\ \A j \in DOMAIN h : h[j] = HistoryRow(chat_messages[h[j].id])
       /\ \A j, k \in DOMAIN h : j < k => h[j].id < h[k].id
       /\ \A j \in DOMAIN h : \A r \in RepliesTo(h[j].id) :
            \E k \in DOMAIN h : h[k].id = r /\ j < k

C37_HistoryOfOwnedClaim == [][C37_HistoryStep]_vars

\* the owner of claim 1 has read a history holding a user message and its
\* reply, while messages of claim 2 are stored before them
C37_Witness ==
  /\ last.op = "history" /\ last.code = 200 /\ last.claim = 1
  /\ Len(last.body.history) = 2
  /\ last.body.history[2].id \in RepliesTo(last.body.history[1].id)
  /\ \E i \in DOMAIN chat_messages :
       chat_messages[i].claim_id = 2 /\ i < last.body.history[1].id

\* C32: a connection has received an event of a claim only if the user
\* holding the connection owns that claim.
C32_EventsReachOwnersOnly ==
  \A k \in Conns : \A i \in ReceivedBy(k) :
    \E c \in DOMAIN claims : emitted[i].room = Room(c) /\ Owns(ConnUser(k), c)

\* the number of entries of the page's list that carry the id of stored message i
Shown(i) == Cardinality({j \in DOMAIN page.messages : page.messages[j].id = i})

\* C33: once the page has loaded, has received the event of every message
\* published for its claim, without ever losing its connection, and nothing
\* is in flight any more, its list holds every persisted message of the
\* claim exactly once.
C33_EveryMessageOnce ==
  (PageSettled /\ ~page.lost /\ EventsAt(PageClaim, "chat_message") \subseteq ReceivedBy(PageConn)) =>
    \A i \in DOMAIN chat_messages : chat_messages[i].claim_id = PageClaim => Shown(i) = 1

\* the calls of sendMessage for which an assistant reply can still arrive:
\* those not answered yet, and those the server accepted
Outstanding == {s \in DOMAIN page.outbox :
                  page.outbox[s].state # "done" \/ page.outbox[s].answer < 400}

\* C35: the indicator and the slow-response warning are shown only while a
\* reply to a message sent from the page is outstanding.
C35_ShownOnlyWhileOutstanding ==
  (page.isAiReplying \/ page.showSlowResponseWarning) => Outstanding # {}

\* the calls of sendMessage whose answer the page has processed and, when
\* the message was stored, whose chat_message event it has processed too
Reconciled ==
  {s \in DOMAIN page.outbox :
     /\ page.outbox[s].state = "done"
     /\ page.outbox[s].stored # 0 =>
          \E k \in 1..page.seen :
            /\ emitted[delivered[PageConn][k]].event = "chat_message"
            /\ emitted[delivered[PageConn][k]].payload.id = page.outbox[s].stored}

====
